---- MODULE Spec2Model ----
(***************************************************************************)
(* Model of the asynchronous recommendation pipeline:                      *)
(*   lambda_a_starter.py   (submission),                                   *)
(*   lambda_b_executor.py  (execution, terminal write to the job store),   *)
(*   lambda_c_checker.py   (polling),                                      *)
(*   recommendation_generator.py (resolution, enrichment, assembly).       *)
(*                                                                         *)
(* Encoding of values:                                                     *)
(*   - a number that may be None is an integer, None being NONE (-1);      *)
(*   - a place name is a natural number whose order is the alphabetical    *)
(*     order of the names, 0 being the empty string;                       *)
(*   - a job id "job_<uuid hex>" is the positive number of its uuid, and   *)
(*     the default id "unknown" of the executor is UNKNOWN (0);            *)
(*   - the three categories are the strings FOOD ("美食"), ATTRACTION      *)
(*     ("名胜古迹和旅游景点") and EVENTS ("跳蚤市场或活动"); OTHER_TYPE is  *)
(*     any other non-empty main_type and "" the empty or absent one.       *)
(***************************************************************************)
EXTENDS Integers, Sequences, FiniteSets, TLC

\* ------------------------------------------------------------------ bounds
MaxJobs == 1          \* submissions that reach the dispatch
MaxRuns == 2          \* executor invocations
MaxPlaces == 18       \* candidates the nearby search has in all
MaxRating == 2        \* ratings are 0..MaxRating
PageLen == 8          \* candidates per page of the nearby search
MaxCandidates == 7    \* candidates of a generative response
MaxMult == 3
MaxPhotos == 4         \* photos in the details of one attraction
MaxDetails == 3        \* places of a request whose details lack a field
MaxScored == 12
MaxMarked == 2
MaxReviews == 7
MaxUploads == 2
MaxNameLen == 2
MaxSeconds == 1        \* places handed to the assembler at once          \* orders of the names in a generative response

\* ------------------------------------------------------- program constants
FOOD_MAX_RESULTS == 5
MARKET_MAX_RESULTS == 5
ATTRACTION_MAX_RESULTS == 5
ATTRACTION_IMAGE_COUNT == 3
MAX_REVIEWS == 5
KEY_NAME_LENGTH == 50

NONE == -1
UNKNOWN == 0
FOOD == "food"
ATTRACTION == "attraction"
EVENTS == "events"
OTHER_TYPE == "other"

\* ----------------------------------------------------------------- helpers

Min(a, b) == IF a <= b THEN a ELSE b

\* s[:n]
Take(s, n) == SubSeq(s, 1, Min(n, Len(s)))

\* Python truthiness of a number-or-None and of a string.
TruthyNum(v) == v /= NONE /\ v /= 0
TruthyStr(s) == s /= ""

\* ------------------------------------------------- recommendation_generator
\* What a function returns or raises: raised, the text of the exception and,
\* when it returned, the value.
Returned(v) == [raised |-> FALSE, err |-> "", value |-> v]
Raised(e) == [raised |-> TRUE, err |-> e, value |-> <<>>]

get_max_results(main_type) == IF main_type = FOOD THEN FOOD_MAX_RESULTS ELSE NONE

\* Variant: NearbyLoop that follows the page tokens to the last page.
RECURSIVE NearbyLoopAllPages(_, _, _, _, _)
NearbyLoopAllPages(pages, i, all_places, trace, max_results) ==
  LET page == pages[i]
      tr == trace \o (IF i > 1 THEN <<"sleep", "get">> ELSE <<"get">>)
      collected == all_places \o page.results
  IN  IF ~page.http_ok THEN Raised("HTTPError")
      ELSE IF page.status /= "OK"
        THEN IF page.status = "REQUEST_DENIED"
               THEN Raised("REQUEST_DENIED")
               ELSE Returned([all_places |-> all_places, trace |-> tr])
      ELSE IF ~page.next_page_token
        THEN Returned([all_places |-> collected, trace |-> tr])
      ELSE NearbyLoopAllPages(pages, i + 1, collected, tr, max_results)

\* Variant: NearbyLoop that requests the next page at once.
RECURSIVE NearbyLoopNoDelay(_, _, _, _, _)
NearbyLoopNoDelay(pages, i, all_places, trace, max_results) ==
  LET page == pages[i]
      tr == Append(trace, "get")
      collected == all_places \o page.results
  IN  IF ~page.http_ok THEN Raised("HTTPError")
      ELSE IF page.status /= "OK"
        THEN IF page.status = "REQUEST_DENIED"
               THEN Raised("REQUEST_DENIED")
               ELSE Returned([all_places |-> all_places, trace |-> tr])
      ELSE IF TruthyNum(max_results) /\ Len(collected) >= max_results * 3
        THEN Returned([all_places |-> collected, trace |-> tr])
      ELSE IF ~page.next_page_token
        THEN Returned([all_places |-> collected, trace |-> tr])
      ELSE NearbyLoopNoDelay(pages, i + 1, collected, tr, max_results)

\* The paging loop of the nearby search, from its i-th request on. pages[i] is
\* the provider's answer to the i-th request: [http_ok, status, results,
\* next_page_token]. The value is [all_places, trace], trace being the calls
\* made in order: "sleep" for time.sleep, "get" for requests.get.
RECURSIVE NearbyLoop(_, _, _, _, _)
NearbyLoop(pages, i, all_places, trace, max_results) ==
  LET page == pages[i]
      tr == trace \o (IF i > 1 THEN <<"sleep", "get">> ELSE <<"get">>)
      collected == all_places \o page.results
  IN  IF ~page.http_ok THEN Raised("HTTPError")
      ELSE IF page.status /= "OK"
        THEN IF page.status = "REQUEST_DENIED"
               THEN Raised("REQUEST_DENIED")
               ELSE Returned([all_places |-> all_places, trace |-> tr])
      ELSE IF TruthyNum(max_results) /\ Len(collected) >= max_results * 3
        THEN Returned([all_places |-> collected, trace |-> tr])
      ELSE IF ~page.next_page_token
        THEN Returned([all_places |-> collected, trace |-> tr])
      ELSE NearbyLoop(pages, i + 1, collected, tr, max_results)

\* sorted(all_places, key=rating, reverse=True): a stable sort, so places of
\* equal rating keep the order of the search. InsertByRating puts x behind
\* every place of s whose rating is at least x's.
RECURSIVE InsertByRating(_, _)
InsertByRating(s, x) ==
  IF s = <<>> THEN <<x>>
  ELSE IF Head(s).rating >= x.rating
    THEN <<Head(s)>> \o InsertByRating(Tail(s), x)
    ELSE <<x>> \o s

RECURSIVE SortByRatingDesc(_)
SortByRatingDesc(s) ==
  IF s = <<>> THEN <<>>
  ELSE InsertByRating(SortByRatingDesc(SubSeq(s, 1, Len(s) - 1)), s[Len(s)])

\* Variant: RankPlaces with the slice taken before the sort.
RankPlacesTruncateFirst(all_places, main_type) ==
  IF main_type = FOOD /\ all_places /= <<>>
    THEN SortByRatingDesc(Take(all_places, FOOD_MAX_RESULTS))
    ELSE all_places

\* The rank phase: for the food category, sort by descending rating and keep
\* the first FOOD_MAX_RESULTS.
RankPlaces(all_places, main_type) ==
  IF main_type = FOOD /\ all_places /= <<>>
    THEN Take(SortByRatingDesc(all_places), FOOD_MAX_RESULTS)
    ELSE all_places

\* get_review_score: the pair of the likes of a review, 0 when it has none,
\* and its rating. A review is [text, likes, rating]; text 0 is no text and
\* likes NONE is a review with none of likes, thumbs_up, helpful_votes.
get_review_score(review) ==
  <<IF TruthyNum(review.likes) THEN review.likes ELSE 0, review.rating>>
ScoreAtLeast(x, y) == x[1] > y[1] \/ (x[1] = y[1] /\ x[2] >= y[2])

\* sorted(valid_reviews, key=get_review_score, reverse=True): reviews of equal
\* score keep their order.
RECURSIVE InsertByReviewScore(_, _)
InsertByReviewScore(s, x) ==
  IF s = <<>> THEN <<x>>
  ELSE IF ScoreAtLeast(get_review_score(Head(s)), get_review_score(x))
    THEN <<Head(s)>> \o InsertByReviewScore(Tail(s), x)
    ELSE <<x>> \o s

RECURSIVE SortReviewsDesc(_)
SortReviewsDesc(s) ==
  IF s = <<>> THEN <<>>
  ELSE InsertByReviewScore(SortReviewsDesc(SubSeq(s, 1, Len(s) - 1)), s[Len(s)])

\* Variant: review_texts taken from the first reviews that have text, in the
\* order of the provider.
review_texts_unsorted(reviews) ==
  LET valid_reviews == SelectSeq(reviews, LAMBDA review : TruthyNum(review.text))
      top_reviews == Take(valid_reviews, MAX_REVIEWS)
  IN  [k \in 1..Len(top_reviews) |-> top_reviews[k].text]

\* The texts stored as place_info["reviews"]: of the reviews with a text, the
\* first MAX_REVIEWS by descending score.
review_texts(reviews) ==
  LET valid_reviews == SelectSeq(reviews, LAMBDA review : TruthyNum(review.text))
      top_reviews == Take(SortReviewsDesc(valid_reviews), MAX_REVIEWS)
  IN  [k \in 1..Len(top_reviews) |-> top_reviews[k].text]

\* The provider's answer to the detail lookup of place_id: env.fault names
\* the lookup that goes wrong, if any, and how. photos is the number of
\* photos of the place, each with a photo_reference; has_name is whether the
\* result holds a name; a location may come without its lat.
DetailsResponse(env, place_id) ==
  LET hit == env.fault.at = place_id
  IN  [http_ok |-> ~(hit /\ env.fault.kind = "http"),
       status |-> IF hit /\ env.fault.kind = "not_ok" THEN "NOT_FOUND" ELSE "OK",
       result |-> [name |-> place_id,
                   has_name |-> ~(hit /\ env.fault.kind = "no_name"),
                   rating |-> env.detail_rating[place_id],
                   has_location |-> ~(hit /\ env.fault.kind = "no_geometry"),
                   lat |-> IF hit /\ env.fault.kind = "no_lat" THEN NONE ELSE 30 + place_id,
                   lng |-> 130 + place_id,
                   website |-> place_id % 2,
                   past |-> FALSE,
                   reviews |-> env.reviews,
                   photos |-> IF hit /\ env.fault.kind = "no_photo" THEN 0 ELSE 2]]

\* is_event_within_date_range: False for details whose name or description
\* holds a past-time keyword; details with no sign of a time pass.
is_event_within_date_range(place_details) == ~place_details.past

\* The detail loop over the ranked places, from the i-th on. Only this loop
\* asks is_event_within_date_range.
RECURSIVE DetailLoop(_, _, _, _, _, _, _)
DetailLoop(env, places, i, processed_places, lat, lng, main_type) ==
  IF i > Len(places) THEN Returned(processed_places)
  ELSE LET place_id == places[i].place_id
           d == DetailsResponse(env, place_id)
           place_info == [place_id |-> place_id,
                          name |-> IF d.result.has_name THEN d.result.name ELSE 0,
                          rating |-> d.result.rating,
                          website |-> d.result.website,
                          lat |-> IF d.result.has_location THEN d.result.lat ELSE lat,
                          lng |-> IF d.result.has_location THEN d.result.lng ELSE lng,
                          photo_reference |-> IF d.result.photos > 0 THEN place_id ELSE NONE,
                          s3_image_url |-> NONE,
                          reviews |-> IF main_type = FOOD
                                        THEN review_texts(d.result.reviews)
                                        ELSE <<>>,
                          summary |-> NONE]
       IN  IF place_id = 0
             THEN DetailLoop(env, places, i + 1, processed_places, lat, lng, main_type)
           ELSE IF ~d.http_ok THEN Raised("HTTPError")
           ELSE IF d.status /= "OK"
             THEN DetailLoop(env, places, i + 1, processed_places, lat, lng, main_type)
           ELSE IF main_type = EVENTS /\ ~is_event_within_date_range(d.result)
             THEN DetailLoop(env, places, i + 1, processed_places, lat, lng, main_type)
           ELSE DetailLoop(env, places, i + 1,
                           Append(processed_places, place_info), lat, lng, main_type)

\* fetch_places_via_gemini. The response of the generative provider is
\* [text, fenced, places]: text is "blank" (no text), "garbage" (text that is
\* no JSON array of objects) or "array", the text of the JSON array places,
\* inside a code fence when fenced. A place of the array is
\* [name, address, latitude, longitude, flea, past, summary, website]: flea is
\* whether name and summary hold a flea-market keyword, past whether they
\* hold a past-time keyword.
StripFence(response) ==
  IF response.fenced THEN [response EXCEPT !.fenced = FALSE] ELSE response

fetch_places_via_gemini(response, main_type) ==
  LET cleaned == StripFence(response)
      place_data(p) ==
        [name |-> p.name,
         formatted_address |-> p.address,
         summary |-> p.summary,
         rating |-> 0,
         website |-> p.website,
         flea |-> p.flea,
         past |-> p.past,
         lat |-> IF main_type = EVENTS /\ TruthyNum(p.latitude) /\ TruthyNum(p.longitude)
                   THEN p.latitude ELSE NONE,
         lng |-> IF main_type = EVENTS /\ TruthyNum(p.latitude) /\ TruthyNum(p.longitude)
                   THEN p.longitude ELSE NONE]
      named == SelectSeq(cleaned.places, LAMBDA p : TruthyNum(p.name))
  IN  IF response.text = "blank" THEN Raised("Gemini empty response")
      ELSE IF cleaned.text = "garbage" THEN Raised("JSONDecodeError")
      ELSE Returned([i \in 1..Len(named) |-> place_data(named[i])])

is_flea_market(place) == place.flea

\* places.sort(key=(not is_flea_market, name)): a stable sort.
EventKeyLeq(x, y) ==
  \/ is_flea_market(x) /\ ~is_flea_market(y)
  \/ is_flea_market(x) = is_flea_market(y) /\ x.name <= y.name

RECURSIVE InsertByEventKey(_, _)
InsertByEventKey(s, x) ==
  IF s = <<>> THEN <<x>>
  ELSE IF EventKeyLeq(Head(s), x)
    THEN <<Head(s)>> \o InsertByEventKey(Tail(s), x)
    ELSE <<x>> \o s

RECURSIVE SortEvents(_)
SortEvents(s) ==
  IF s = <<>> THEN <<>>
  ELSE InsertByEventKey(SortEvents(SubSeq(s, 1, Len(s) - 1)), s[Len(s)])

\* geocode_address: None without an address or when the provider fails.
geocode_address(env, address) ==
  IF address = 0 \/ ~env.geocode_ok THEN NONE ELSE 40 + address

\* The events branch: one candidate of the generative response to one place;
\* geocoded records whether geocode_address was called for it.
EventPlaceInfo(env, place, lat, lng) ==
  LET geo == geocode_address(env, place.formatted_address)
      own == place.lat /= NONE /\ place.lng /= NONE
  IN  [place_id |-> place.name,
       name |-> place.name,
       rating |-> 0,
       website |-> place.website,
       summary |-> place.summary,
       s3_image_urls |-> <<>>,
       geocoded |-> ~own /\ place.formatted_address /= 0,
       lat |-> IF own THEN place.lat ELSE IF geo /= NONE THEN geo ELSE lat,
       lng |-> IF own THEN place.lng ELSE IF geo /= NONE THEN geo + 100 ELSE lng]

\* The pool of one attraction whose details hold n photos: the photos at the
\* 0-based indexes refs have a photo_reference, and upload_image_to_s3 returns
\* None for those at the indexes fails. One future is submitted for each of
\* the first ATTRACTION_IMAGE_COUNT photos that has a reference; s3_urls is
\* the list of slots, completed the order in which as_completed yielded the
\* futures. The URL of the photo at index idx is idx + 1.
PoolStart(n, refs, fails) ==
  LET submitted == {idx \in refs : idx < Min(n, ATTRACTION_IMAGE_COUNT)}
  IN  [phase |-> "running", photos |-> n, submitted |-> submitted, fails |-> fails,
       pending |-> submitted,
       s3_urls |-> [k \in 1..Min(n, ATTRACTION_IMAGE_COUNT) |-> NONE],
       completed |-> <<>>, s3_image_urls |-> <<>>]

\* upload_image_to_s3 of the photo at index idx: its URL, or None.
upload_image_to_s3(p, idx) == IF idx \in p.fails THEN NONE ELSE idx + 1

\* The list the pool leaves when every future was yielded, which does not
\* depend on the order of the futures: slot idx holds the URL of photo idx.
PoolOutcome(p) ==
  SelectSeq([k \in 1..Len(p.s3_urls) |->
               IF (k - 1) \in p.submitted THEN upload_image_to_s3(p, k - 1) ELSE NONE],
            LAMBDA url : TruthyNum(url))

\* The attractions branch, from the i-th candidate on: text search, then the
\* detail lookup of the place found.
RECURSIVE AttractionLoop(_, _, _, _, _, _)
AttractionLoop(env, places, i, processed_places, lat, lng) ==
  IF i > Len(places) THEN Returned(processed_places)
  ELSE LET place == places[i]
           place_id == IF place.name \in env.found THEN place.name ELSE NONE
           d == DetailsResponse(env, place.name)
           missed == [place_id |-> place.name, name |-> place.name, rating |-> 0,
                      website |-> place.website, summary |-> place.summary,
                      s3_image_urls |-> <<>>,
                      lat |-> lat, lng |-> lng]
           photos == d.result.photos
           uploads == PoolStart(photos, 0..(photos - 1),
                                IF env.fault.kind = "upload" /\ env.fault.at = place.name
                                  THEN {0} ELSE {})
           place_info == [place_id |-> place_id,
                          name |-> IF d.result.has_name THEN d.result.name ELSE place.name,
                          rating |-> d.result.rating,
                          website |-> d.result.website,
                          summary |-> place.summary,
                          s3_image_urls |-> IF photos > 0 THEN PoolOutcome(uploads) ELSE <<>>,
                          lat |-> IF d.result.has_location THEN d.result.lat ELSE lat,
                          lng |-> IF d.result.has_location THEN d.result.lng ELSE lng]
       IN  IF place_id = NONE
             THEN AttractionLoop(env, places, i + 1, Append(processed_places, missed), lat, lng)
           ELSE IF ~d.http_ok THEN Raised("HTTPError")
           ELSE IF d.status /= "OK"
             THEN AttractionLoop(env, places, i + 1, processed_places, lat, lng)
           ELSE AttractionLoop(env, places, i + 1,
                               Append(processed_places, place_info), lat, lng)

\* Variant: fetch_places_via_gemini_and_process_images with the events cut to
\* MARKET_MAX_RESULTS before the sort.
fetch_places_truncated_unsorted(Config, env, lat, lng, main_type) ==
  LET g == fetch_places_via_gemini(env.gemini, main_type)
      places == g.value
      sorted == SortEvents(Take(places, MARKET_MAX_RESULTS))
  IN  IF ~Config.GOOGLE_PLACES_API_KEY THEN Raised("GOOGLE_PLACES_API_KEY missing")
      ELSE IF g.raised THEN g
      ELSE IF places = <<>> THEN Returned(<<>>)
      ELSE IF main_type = EVENTS
        THEN Returned([i \in 1..Len(sorted) |-> EventPlaceInfo(env, sorted[i], lat, lng)])
      ELSE AttractionLoop(env, Take(places, ATTRACTION_MAX_RESULTS), 1, <<>>, lat, lng)

fetch_places_via_gemini_and_process_images(Config, env, lat, lng, main_type) ==
  LET g == fetch_places_via_gemini(env.gemini, main_type)
      places == g.value
      sorted == Take(SortEvents(places), MARKET_MAX_RESULTS)
  IN  IF ~Config.GOOGLE_PLACES_API_KEY THEN Raised("GOOGLE_PLACES_API_KEY missing")
      ELSE IF g.raised THEN g
      ELSE IF places = <<>> THEN Returned(<<>>)
      ELSE IF main_type = EVENTS
        THEN Returned([i \in 1..Len(sorted) |-> EventPlaceInfo(env, sorted[i], lat, lng)])
      ELSE AttractionLoop(env, Take(places, ATTRACTION_MAX_RESULTS), 1, <<>>, lat, lng)

\* Variant: UploadImages that leaves out the places whose upload failed.
UploadImagesDropFailed(env, processed_places) ==
  SelectSeq([i \in 1..Len(processed_places) |->
               [processed_places[i] EXCEPT !.s3_image_url = 500 + processed_places[i].place_id]],
            LAMBDA place : ~(env.fault.kind = "upload" /\ env.fault.at = place.place_id))

\* The uploads of the places path: one future for each place with a
\* photo_reference; the result of each, a URL or None, goes to its own place.
\* env.fault names the upload that fails; the URL of place p is 500 + p.
UploadImages(env, processed_places) ==
  [i \in 1..Len(processed_places) |->
     LET place == processed_places[i]
         s3_url == IF env.fault.kind = "upload" /\ env.fault.at = place.place_id
                     THEN NONE ELSE 500 + place.place_id
     IN  IF TruthyNum(place.photo_reference)
           THEN [place EXCEPT !.s3_image_url = s3_url]
           ELSE place]

\* fetch_data_and_process_images: the generative path for the attractions
\* and events categories, the nearby search of the places provider otherwise.
fetch_data_and_process_images(Config, env, lat, lng, main_type) ==
  LET n == NearbyLoop(env.pages, 1, <<>>, <<>>, get_max_results(main_type))
  IN  IF main_type \in {ATTRACTION, EVENTS}
        THEN fetch_places_via_gemini_and_process_images(Config, env, lat, lng, main_type)
      ELSE IF ~Config.GOOGLE_PLACES_API_KEY THEN Raised("GOOGLE_PLACES_API_KEY missing")
      ELSE IF n.raised THEN n
      ELSE LET d == DetailLoop(env, RankPlaces(n.value.all_places, main_type), 1, <<>>,
                               lat, lng, main_type)
           IN  IF d.raised THEN d ELSE Returned(UploadImages(env, d.value))

\* The fixed summary "暂无概要" of a place the summary response leaves out;
\* the summary the provider writes for place p is SummaryOf(p).
PLACEHOLDER_SUMMARY == 1
SummaryOf(p) == 100 + p

\* generate_marker_id: "mk_01", "mk_02", ... is the number after "mk_".
generate_marker_id(index) == index + 1

\* The scale of a rating, in tenths of a star: the provider rates from 0 to 5.
RATING_SCALE == 50

\* The relevance score of the place at 0-based index idx, in hundredths. A
\* rating is a number of tenths of a star, so 0.5 + rating / 10 is
\* 50 + rating hundredths and 0.05 * idx is 5 * idx hundredths; both round(_, 2)
\* leave such a number as it is.
relevance_base(rating) == IF TruthyNum(rating) THEN 50 + rating ELSE 50
relevance_score(rating, idx) ==
  LET lowered == relevance_base(rating) - idx * 5
  IN  IF lowered > 10 THEN lowered ELSE 10

\* The Editor.js blocks of a place: the header with the name, an image block
\* for each truthy URL, the paragraph of the summary, and the paragraph of
\* the source when the place has a website.
place_blocks(place, image_urls) ==
  <<[type |-> "header", text |-> <<"name", place.name>>]>>
  \o [k \in 1..Len(SelectSeq(image_urls, LAMBDA url : TruthyNum(url))) |->
        [type |-> "image",
         text |-> <<"url", SelectSeq(image_urls, LAMBDA url : TruthyNum(url))[k]>>]]
  \o <<[type |-> "paragraph", text |-> <<"summary", place.summary>>]>>
  \o (IF TruthyNum(place.website)
        THEN <<[type |-> "paragraph", text |-> <<"source", place.website>>]>>
        ELSE <<>>)

\* Variant: place_marker that shows s3_image_url for every category but the
\* attractions.
place_marker_any_image(place, idx, main_type, score) ==
  LET image_urls ==
        IF main_type = ATTRACTION THEN place.s3_image_urls
        ELSE IF TruthyNum(place.s3_image_url)
          THEN <<place.s3_image_url>>
        ELSE <<>>
  IN  [id |-> generate_marker_id(idx),
       title |-> place.name,
       headerImage |-> IF image_urls /= <<>> THEN image_urls[1] ELSE 0,
       image_blocks |-> SelectSeq(image_urls, LAMBDA url : TruthyNum(url)),
       blocks |-> place_blocks(place, image_urls),
       latitude |-> IF place.lat /= NONE THEN place.lat ELSE 0,
       longitude |-> IF place.lng /= NONE THEN place.lng ELSE 0,
       summary |-> place.summary,
       relevanceScore |-> score]

\* The marker of the place at 0-based index idx with the relevance score
\* given: the images are s3_image_urls for an attraction, s3_image_url if
\* there is one for food, none otherwise; headerImage is the first image, or
\* "" (0); the blocks hold one image block for each image. A place without
\* coordinates gets 0.
place_marker(place, idx, main_type, score) ==
  LET image_urls ==
        IF main_type = ATTRACTION THEN place.s3_image_urls
        ELSE IF main_type = FOOD /\ TruthyNum(place.s3_image_url)
          THEN <<place.s3_image_url>>
        ELSE <<>>
  IN  [id |-> generate_marker_id(idx),
       title |-> place.name,
       headerImage |-> IF image_urls /= <<>> THEN image_urls[1] ELSE 0,
       image_blocks |-> SelectSeq(image_urls, LAMBDA url : TruthyNum(url)),
       blocks |-> place_blocks(place, image_urls),
       latitude |-> IF place.lat /= NONE THEN place.lat ELSE 0,
       longitude |-> IF place.lng /= NONE THEN place.lng ELSE 0,
       summary |-> place.summary,
       relevanceScore |-> score]

\* Variant: format_places_to_markers whose score has no floor.
format_places_unfloored(processed_places, main_type, request_id) ==
  LET marker(idx) ==
        LET place == processed_places[idx + 1]
        IN  place_marker(place, idx, main_type, relevance_base(place.rating) - idx * 5)
  IN  [requestId |-> request_id,
       ttlSeconds |-> 300,
       markers |-> [i \in 1..Len(processed_places) |-> marker(i - 1)]]

\* Variant: format_places_to_markers that numbers the markers in the order of
\* the places and lists them last place first.
format_places_reversed(processed_places, main_type, request_id) ==
  LET n == Len(processed_places)
      marker(idx) ==
        LET place == processed_places[idx + 1]
        IN  place_marker(place, idx, main_type, relevance_score(place.rating, idx))
  IN  [requestId |-> request_id,
       ttlSeconds |-> 300,
       markers |-> [i \in 1..n |-> marker(n - i)]]

\* format_places_to_markers: one marker per place, in the order of the places
\* (idx is the 0-based index of enumerate).
format_places_to_markers(processed_places, main_type, request_id) ==
  LET marker(idx) ==
        LET place == processed_places[idx + 1]
        IN  place_marker(place, idx, main_type, relevance_score(place.rating, idx))
  IN  [requestId |-> request_id,
       ttlSeconds |-> 300,
       markers |-> [i \in 1..Len(processed_places) |-> marker(i - 1)]]

\* Variant: summary_requests with one request for each place.
summary_requests_per_place(processed_places, main_type) ==
  IF main_type \in {ATTRACTION, EVENTS} THEN <<>>
  ELSE [i \in 1..Len(processed_places) |-> <<processed_places[i].place_id>>]

\* The requests generate_content_and_format sends to the generative provider,
\* each the list of the place_ids its prompt carries: none for the generative
\* categories, one prompt with the places_data of every place otherwise.
summary_requests(processed_places, main_type) ==
  IF main_type \in {ATTRACTION, EVENTS} THEN <<>>
  ELSE << [i \in 1..Len(processed_places) |-> processed_places[i].place_id] >>

\* generate_content_and_format: the summaries of the generative path are
\* already there; for the other categories the provider answers [text, ids]:
\* the text is "garbage" or the "array" of the summaries of the places asked
\* for whose place_id is in ids. A place the array leaves out gets
\* PLACEHOLDER_SUMMARY.
generate_content_and_format(env, processed_places, main_type, request_id) ==
  LET prompts == summary_requests(processed_places, main_type)
      asked == {prompts[k][j] : k \in 1..Len(prompts), j \in 1..Len(processed_places)}
      summaries_dict == asked \cap env.summary.ids
      summarized ==
        [i \in 1..Len(processed_places) |->
           [processed_places[i] EXCEPT !.summary =
              IF processed_places[i].place_id \in summaries_dict
                THEN SummaryOf(processed_places[i].place_id)
                ELSE PLACEHOLDER_SUMMARY]]
  IN  IF main_type \in {ATTRACTION, EVENTS}
        THEN Returned(format_places_to_markers(processed_places, main_type, request_id))
      ELSE IF env.summary.text /= "array" THEN Raised("JSONDecodeError")
      ELSE Returned(format_places_to_markers(summarized, main_type, request_id))

\* The result the executor builds itself when no place was found.
EmptyResult(request_id) ==
  [requestId |-> request_id, ttlSeconds |-> 300, markers |-> <<>>]

\* ------------------------------------------------------------ JSON, storage
\* json.dumps of a dict is the set of its members <<key, value>>; json.loads
\* gives the dict back; d.get(key, default) reads it.
dumps(d) == {<<k, d[k]>> : k \in DOMAIN d}
loads(text) ==
  [k \in {m[1] : m \in text} |-> (CHOOSE m \in text : m[1] = k)[2]]
DictGet(d, k, default) == IF k \in DOMAIN d THEN d[k] ELSE default

\* The key of a job's record: f"{Config.S3_JOB_RESULT_PREFIX}{job_id}.json".
s3_key(job_id) == <<"rcmnd_job/", job_id, ".json">>

\* put_object: the bucket with body stored under key, replacing what was there.
put_object(bucket, key, body) ==
  [k \in DOMAIN bucket \cup {key} |-> IF k = key THEN body ELSE bucket[k]]

\* get_object: the body, or the ClientError NoSuchKey.
get_object(bucket, key) ==
  IF key \in DOMAIN bucket
    THEN [code |-> "OK", body |-> bucket[key]]
    ELSE [code |-> "NoSuchKey", body |-> {}]

\* Config.validate, over the configuration as "is set" flags.
ConfigValid(Config) ==
  Config.GOOGLE_PLACES_API_KEY /\ Config.GEMINI_API_KEY /\ Config.S3_BUCKET_NAME

\* Variant: ResultObject with the document one level down.
ResultObjectNested(job_id, now, result) ==
  dumps([jobId |-> job_id, status |-> "completed", completedAt |-> now,
         result |-> [data |-> result]])

\* The body save_result_to_s3 stores, and the body save_error_to_s3 stores.
ResultObject(job_id, now, result) ==
  dumps([jobId |-> job_id, status |-> "completed", completedAt |-> now, result |-> result])
ErrorObject(job_id, now, error_message) ==
  dumps([jobId |-> job_id, status |-> "failed", completedAt |-> now, error |-> error_message])

\* Variant: CheckerResponse with a missing record answered as an error and a stored
\* record passed through.
CheckerResponseNotFound(Config, bucket, job_id) ==
  LET got == get_object(bucket, s3_key(job_id))
      result_data == loads(got.body)
      status == DictGet(result_data, "status", "unknown")
  IN  IF job_id = NONE
        THEN [statusCode |-> 400, body |-> [error |-> "missing job_id"]]
      ELSE IF got.code = "OK"
        THEN [statusCode |-> 200,
              body |-> [jobId |-> job_id, status |-> status, data |-> result_data]]
      ELSE [statusCode |-> 404, body |-> [error |-> got.code]]

\* Variant: CheckerResponse that tells the caller that there is no record.
CheckerResponseGone(Config, bucket, job_id) ==
  LET got == get_object(bucket, s3_key(job_id))
      result_data == loads(got.body)
      status == DictGet(result_data, "status", "unknown")
  IN  IF job_id = NONE
        THEN [statusCode |-> 400, body |-> [error |-> "missing job_id"]]
      ELSE IF ~Config.S3_BUCKET_NAME
        THEN [statusCode |-> 500, body |-> [error |-> "S3_BUCKET_NAME missing"]]
      ELSE IF got.code = "OK"
        THEN [statusCode |-> 200,
              body |-> [jobId |-> job_id, status |-> status,
                        completedAt |-> DictGet(result_data, "completedAt", NONE)]]
      ELSE [statusCode |-> 200, body |-> [jobId |-> job_id, status |-> "expired"]]

\* ---------------------------------------------------------- lambda_c_checker
\* The poller's handler on the job id of the request (NONE when the request
\* carries none) and the bucket as it is at the read.
CheckerResponse(Config, bucket, job_id) ==
  LET got == get_object(bucket, s3_key(job_id))
      result_data == loads(got.body)
      status == DictGet(result_data, "status", "unknown")
  IN  IF job_id = NONE
        THEN [statusCode |-> 400, body |-> [error |-> "missing job_id"]]
      ELSE IF ~Config.S3_BUCKET_NAME
        THEN [statusCode |-> 500, body |-> [error |-> "S3_BUCKET_NAME missing"]]
      ELSE IF got.code = "OK"
        THEN IF status = "completed"
               THEN [statusCode |-> 200,
                     body |-> [jobId |-> job_id, status |-> "completed",
                               completedAt |-> DictGet(result_data, "completedAt", NONE),
                               result |-> DictGet(result_data, "result", <<>>)]]
             ELSE IF status = "failed"
               THEN [statusCode |-> 200,
                     body |-> [jobId |-> job_id, status |-> "failed",
                               completedAt |-> DictGet(result_data, "completedAt", NONE),
                               error |-> DictGet(result_data, "error", "unknown error")]]
             ELSE [statusCode |-> 200,
                   body |-> [jobId |-> job_id, status |-> status, data |-> result_data]]
      ELSE IF got.code \in {"NoSuchKey", "404"}
        THEN [statusCode |-> 200,
              body |-> [jobId |-> job_id, status |-> "processing", retryAfter |-> 5]]
      ELSE [statusCode |-> 500, body |-> [error |-> got.code]]

\* Variant: StarterRejects without the check of main_type.
StarterRejectsCoordinatesOnly(body) ==
  ~(TruthyNum(body.lat) /\ TruthyNum(body.lng))

\* ---------------------------------------------------------- lambda_a_starter
\* Variant: StarterRejects that takes only an absent parameter for missing.
StarterRejectsAbsent(body) ==
  body.lat = NONE \/ body.lng = NONE \/ body.main_type = ""

\* The starter's parameter check: not all([lat, lng, main_type]).
StarterRejects(body) ==
  ~(TruthyNum(body.lat) /\ TruthyNum(body.lng) /\ TruthyStr(body.main_type))

\* The payload the starter hands to the executor.
StarterPayload(job_id, body) ==
  [job_id |-> job_id, lat |-> body.lat, lng |-> body.lng, main_type |-> body.main_type]

\* The starter's responses.
BadJsonResponse == [statusCode |-> 400, body |-> [error |-> "JSON decode error"]]
MissingParamResponse ==
  [statusCode |-> 400, body |-> [error |-> "missing lat, lng, main_type"]]
Acknowledgement(job_id) ==
  [statusCode |-> 202, body |-> [jobId |-> job_id, status |-> "processing"]]
ServerErrorResponse(e) == [statusCode |-> 500, body |-> [error |-> e]]

\* ----------------------------------------------------- the providers' answers
\* An environment holds every answer of the providers to one execution.
NoFault == [kind |-> "none", at |-> 0]
NoGemini == [text |-> "blank", fenced |-> FALSE, places |-> <<>>]
OkPage(results, more) ==
  [http_ok |-> TRUE, status |-> "OK", results |-> results, next_page_token |-> more]
StatusPage(status) ==
  [http_ok |-> TRUE, status |-> status, results |-> <<>>, next_page_token |-> FALSE]
GeminiPlace(name, latitude, flea) ==
  [name |-> name, address |-> name, latitude |-> latitude, longitude |-> latitude,
   flea |-> flea, past |-> FALSE, summary |-> SummaryOf(name), website |-> 0]
BaseEnv ==
  [pages |-> <<StatusPage("ZERO_RESULTS")>>,
   fault |-> NoFault,
   detail_rating |-> [p \in 0..(MaxPlaces + 1) |-> 0],
   gemini |-> NoGemini,
   geocode_ok |-> TRUE,
   found |-> {},
   reviews |-> <<>>,
   summary |-> [text |-> "array", ids |-> 1..(MaxPlaces + 1)]]

\* The environments of the lifecycle: for each category, an execution that
\* finds nothing, one that finds a place, and some whose provider fails.
SearchEnvs ==
  { BaseEnv,
    [BaseEnv EXCEPT !.pages = <<StatusPage("REQUEST_DENIED")>>],
    [BaseEnv EXCEPT !.pages = <<OkPage(<<[place_id |-> 1, rating |-> 2]>>, FALSE)>>],
    [BaseEnv EXCEPT !.pages = <<OkPage(<<[place_id |-> 1, rating |-> 2]>>, FALSE)>>,
                    !.summary.text = "garbage"] }
GeminiEnvs ==
  { [BaseEnv EXCEPT !.gemini = [text |-> "array", fenced |-> TRUE, places |-> ps]] :
      ps \in {<<>>, <<GeminiPlace(1, NONE, FALSE)>>} }
  \cup { [BaseEnv EXCEPT !.gemini.text = "garbage"] }
LifecycleEnvs(main_type) ==
  IF main_type \in {ATTRACTION, EVENTS} THEN GeminiEnvs ELSE SearchEnvs

\* -------------------------------------------------------------------- state
VARIABLES
  Config,     \* the environment's configuration, as "is set" flags
  nextJob,    \* how many uuids the starter has drawn
  pending,    \* starter invocations past the dispatch: the response each will return
  inflight,   \* payloads dispatched to the executor and not yet picked up
  runs,       \* the executor invocations, by slot
  storage,    \* the job-result namespace of the bucket: key -> body
  last,       \* the response returned last, by the starter ("submit") or the
              \* poller ("poll"): [by, job_id, present, response]
  food,       \* one resolution of the food category, phase by phase
  call,       \* one call of an operation of recommendation_generator
  pool        \* the thread pool of one attraction's image uploads

vars == <<Config, nextJob, pending, inflight, runs, storage, last, food, call, pool>>

RunIds == 1..MaxRuns
JobIds == 1..MaxJobs
\* The search centre of every valid request.
Center == [lat |-> 35, lng |-> 139]

\* ------------------------------------------------------------------ initial
IdleRun ==
  [pc |-> "idle", job_id |-> NONE, lat |-> NONE, lng |-> NONE, main_type |-> "",
   s3_client |-> FALSE, env |-> BaseEnv, result |-> <<>>, err |-> "",
   wrote |-> "none", error_puts |-> 0]

FoodIdle == [phase |-> "idle", env |-> BaseEnv, processed_places |-> <<>>, prompts |-> <<>>,
             result |-> <<>>, err |-> ""]

\* No call under way, and no pool.
CallIdle == [phase |-> "idle"]
PoolIdle == [phase |-> "idle"]

NoResponse == [statusCode |-> 0, body |-> [error |-> ""]]
NoLast == [by |-> "none", job_id |-> NONE, present |-> FALSE, response |-> NoResponse]

ConfigSet ==
  { [GOOGLE_PLACES_API_KEY |-> TRUE, GEMINI_API_KEY |-> g, S3_BUCKET_NAME |-> TRUE] :
      g \in BOOLEAN }

Init ==
  /\ Config \in ConfigSet
  /\ nextJob = 0
  /\ pending = {}
  /\ inflight = {}
  /\ runs = [r \in RunIds |-> IdleRun]
  /\ storage = [k \in {} |-> {}]
  /\ last = NoLast
  /\ food = FoodIdle
  /\ call = CallIdle
  /\ pool = PoolIdle

\* ---------------------------------------------------------------- submission
\* The request bodies: json_ok is whether the body parses. One valid body per
\* main_type, and the valid food body with one field missing, empty or zero.
ValidBody(main_type) ==
  [json_ok |-> TRUE, lat |-> Center.lat, lng |-> Center.lng, main_type |-> main_type]
SubmitBodies ==
  { ValidBody(t) : t \in {"", FOOD, ATTRACTION, EVENTS} }
  \cup { [ValidBody(FOOD) EXCEPT !.lat = v] : v \in {NONE, 0} }
  \cup { [ValidBody(FOOD) EXCEPT !.lng = v] : v \in {NONE, 0} }
  \cup { [ValidBody(FOOD) EXCEPT !.json_ok = FALSE] }

\* lambda_a_starter.lambda_handler up to a return before the dispatch: a body
\* that does not parse, or one that lacks a required parameter.
SubmitReject(body) ==
  /\ ~body.json_ok \/ StarterRejects(body)
  /\ last' = [by |-> "submit", job_id |-> NONE, present |-> FALSE,
               response |-> IF ~body.json_ok THEN BadJsonResponse
                            ELSE MissingParamResponse]
  /\ UNCHANGED <<Config, nextJob, pending, inflight, runs, storage, food, call, pool>>

\* Variant: SubmitInvoke that acknowledges the job whatever became of the
\* dispatch.
SubmitInvokeAlwaysAcknowledged(body, dispatch) ==
  /\ body.json_ok /\ ~StarterRejects(body)
  /\ nextJob < MaxJobs
  /\ nextJob' = nextJob + 1
  /\ LET job_id == nextJob + 1
     IN  /\ inflight' = IF dispatch = "202"
                          THEN inflight \cup {StarterPayload(job_id, body)}
                          ELSE inflight
         /\ pending' = pending \cup
               {[job_id |-> job_id, response |-> Acknowledgement(job_id)]}
  /\ UNCHANGED <<Config, last, runs, storage, food, call, pool>>

\* lambda_a_starter.lambda_handler through lambda_client.invoke: a fresh job
\* id, and the asynchronous dispatch, which the service accepts (202), refuses
\* (another status) or fails (invoke raises).
SubmitInvoke(body, dispatch) ==
  /\ body.json_ok /\ ~StarterRejects(body)
  /\ nextJob < MaxJobs
  /\ nextJob' = nextJob + 1
  /\ LET job_id == nextJob + 1
     IN  IF dispatch = "202"
           THEN /\ inflight' = inflight \cup {StarterPayload(job_id, body)}
                /\ pending' = pending \cup
                     {[job_id |-> job_id, response |-> Acknowledgement(job_id)]}
           ELSE /\ inflight' = inflight
                /\ pending' = pending \cup
                     {[job_id |-> job_id, response |-> ServerErrorResponse(dispatch)]}
  /\ UNCHANGED <<Config, last, runs, storage, food, call, pool>>

\* Variant: SubmitReturn of a synchronous invocation: the acknowledgement waits for the
\* end of the run.
SubmitReturnAfterRun(p) ==
  /\ p \in pending
  /\ p.response.statusCode = 202 =>
       \E r \in RunIds : runs[r].job_id = p.job_id /\ runs[r].pc = "done"
  /\ pending' = pending \ {p}
  /\ last' = [by |-> "submit", job_id |-> p.job_id, present |-> FALSE,
               response |-> p.response]
  /\ UNCHANGED <<Config, nextJob, inflight, runs, storage, food, call, pool>>

\* The starter returns its response to the caller.
SubmitReturn(p) ==
  /\ p \in pending
  /\ pending' = pending \ {p}
  /\ last' = [by |-> "submit", job_id |-> p.job_id, present |-> FALSE,
               response |-> p.response]
  /\ UNCHANGED <<Config, nextJob, inflight, runs, storage, food, call, pool>>

\* ----------------------------------------------------------------- execution
\* The events the executor can be invoked with directly: any job id or none
\* (then "unknown"), parameters present or missing.
DirectEvents ==
  [job_id : {UNKNOWN} \cup JobIds, lat : {NONE, Center.lat}, lng : {Center.lng},
   main_type : {FOOD, EVENTS}]

\* float(event.get(name, 0)) of an absent parameter.
FloatOrZero(v) == IF v = NONE THEN 0 ELSE v

\* Variant: ExecutorCompute with a failed resolution taken for an empty one.
ExecutorComputeSwallow(config, event, env, request_id) ==
  LET lat == FloatOrZero(event.lat)
      lng == FloatOrZero(event.lng)
      f == fetch_data_and_process_images(config, env, lat, lng, event.main_type)
      g == generate_content_and_format(env, f.value, event.main_type, request_id)
      out(x, client) == [raised |-> x.raised, err |-> x.err, value |-> x.value,
                         s3_client |-> client]
  IN  IF ~ConfigValid(config) THEN out(Raised("missing configuration"), FALSE)
      ELSE IF ~(TruthyNum(lat) /\ TruthyNum(lng) /\ TruthyStr(event.main_type))
        THEN out(Raised("missing lat, lng, main_type"), TRUE)
      ELSE IF f.raised \/ f.value = <<>>
        THEN out(Returned(EmptyResult(request_id)), TRUE)
      ELSE out(g, TRUE)

\* lambda_b_executor.lambda_handler from its entry to the call of
\* save_result_to_s3: the configuration check, the clients, the parameters,
\* the resolution and the result. env is the providers' answers, request_id
\* the uuid of the result. The value returned is the result; s3_client tells
\* whether the client exists by then.
ExecutorCompute(config, event, env, request_id) ==
  LET lat == FloatOrZero(event.lat)
      lng == FloatOrZero(event.lng)
      f == fetch_data_and_process_images(config, env, lat, lng, event.main_type)
      g == generate_content_and_format(env, f.value, event.main_type, request_id)
      out(x, client) == [raised |-> x.raised, err |-> x.err, value |-> x.value,
                         s3_client |-> client]
  IN  IF ~ConfigValid(config) THEN out(Raised("missing configuration"), FALSE)
      ELSE IF ~(TruthyNum(lat) /\ TruthyNum(lng) /\ TruthyStr(event.main_type))
        THEN out(Raised("missing lat, lng, main_type"), TRUE)
      ELSE IF f.raised THEN out(f, TRUE)
      ELSE IF f.value = <<>> THEN out(Returned(EmptyResult(request_id)), TRUE)
      ELSE out(g, TRUE)

FreeSlot ==
  CHOOSE r \in RunIds :
    runs[r].pc = "idle" /\ \A q \in RunIds : q < r => runs[q].pc /= "idle"

\* An invocation of the executor runs up to its write. job_id is "unknown"
\* when the event carries none; the uuid of the result is fresh.
ExecBegin(r, event, env) ==
  LET c == ExecutorCompute(Config, event, env, r)
  IN  runs' = [runs EXCEPT ![r] =
        [IdleRun EXCEPT !.pc = IF c.raised THEN "except" ELSE "save",
                        !.job_id = event.job_id,
                        !.lat = event.lat,
                        !.lng = event.lng,
                        !.main_type = event.main_type,
                        !.s3_client = c.s3_client,
                        !.env = env,
                        !.result = c.value,
                        !.err = c.err]]

\* The asynchronous invocation the starter dispatched runs.
ExecStart(event, env) ==
  /\ event \in inflight
  /\ env \in LifecycleEnvs(event.main_type)
  /\ \E r \in RunIds : runs[r].pc = "idle"
  /\ inflight' = inflight \ {event}
  /\ ExecBegin(FreeSlot, event, env)
  /\ UNCHANGED <<Config, nextJob, pending, last, storage, food, call, pool>>

\* The executor is invoked with an event that no submission dispatched.
ExecInvoke(event, env) ==
  /\ env \in LifecycleEnvs(event.main_type)
  /\ \E r \in RunIds : runs[r].pc = "idle"
  /\ ExecBegin(FreeSlot, event, env)
  /\ UNCHANGED <<Config, nextJob, pending, last, inflight, storage, food, call, pool>>

\* Variant: ExecSaveResult with a failed put swallowed, the except block never entered.
ExecSaveResultSwallow(r, put_ok) ==
  /\ runs[r].pc = "save"
  /\ IF put_ok
       THEN /\ storage' = put_object(storage, s3_key(runs[r].job_id),
                                     ResultObject(runs[r].job_id, r, runs[r].result))
            /\ runs' = [runs EXCEPT ![r].pc = "done", ![r].wrote = "completed"]
       ELSE /\ storage' = storage
            /\ runs' = [runs EXCEPT ![r].pc = "done", ![r].err = "put_object failed"]
  /\ UNCHANGED <<Config, nextJob, pending, last, inflight, food, call, pool>>

\* save_result_to_s3 and the return of the handler; put_ok is whether
\* put_object succeeds. A failed put raises into the except block.
ExecSaveResult(r, put_ok) ==
  /\ runs[r].pc = "save"
  /\ IF put_ok
       THEN /\ storage' = put_object(storage, s3_key(runs[r].job_id),
                                     ResultObject(runs[r].job_id, r, runs[r].result))
            /\ runs' = [runs EXCEPT ![r].pc = "done", ![r].wrote = "completed"]
       ELSE /\ storage' = storage
            /\ runs' = [runs EXCEPT ![r].pc = "except", ![r].err = "put_object failed"]
  /\ UNCHANGED <<Config, nextJob, pending, last, inflight, food, call, pool>>

\* Variant: ExecExcept with a second attempt after a failed write of the error.
ExecExceptRetry(r, put_ok) ==
  /\ runs[r].pc = "except"
  /\ IF put_ok
       THEN /\ storage' = put_object(storage, s3_key(runs[r].job_id),
                                     ErrorObject(runs[r].job_id, r, runs[r].err))
            /\ runs' = [runs EXCEPT ![r].pc = "done", ![r].wrote = "failed",
                                    ![r].s3_client = TRUE, ![r].error_puts = @ + 1]
       ELSE /\ storage' = storage
            /\ runs' = [runs EXCEPT ![r].pc = "done", ![r].s3_client = TRUE,
                                    ![r].error_puts = @ + 2]
  /\ UNCHANGED <<Config, nextJob, pending, last, inflight, food, call, pool>>

\* The except block of the handler: a client if there is none yet (boto3.client
\* only builds the client, it succeeds), then save_error_to_s3 once, its
\* failure swallowed; then the handler returns.
ExecExcept(r, put_ok) ==
  /\ runs[r].pc = "except"
  /\ LET s3_client == TRUE
     IN  IF s3_client /\ put_ok
           THEN /\ storage' = put_object(storage, s3_key(runs[r].job_id),
                                         ErrorObject(runs[r].job_id, r, runs[r].err))
                /\ runs' = [runs EXCEPT ![r].pc = "done", ![r].wrote = "failed",
                                        ![r].s3_client = s3_client,
                                        ![r].error_puts = @ + 1]
           ELSE /\ storage' = storage
                /\ runs' = [runs EXCEPT ![r].pc = "done", ![r].s3_client = s3_client,
                                        ![r].error_puts = IF s3_client THEN @ + 1 ELSE @]
  /\ UNCHANGED <<Config, nextJob, pending, last, inflight, food, call, pool>>

\* -------------------------------------------------------------------- polling
\* lambda_c_checker.lambda_handler: a read of the bucket, answered. NONE is a
\* request without a job id, MaxJobs + 1 an id never submitted.
PollIds == {NONE} \cup 1..(MaxJobs + 1)

Poll(job_id) ==
  /\ job_id \in PollIds
  /\ last' = [by |-> "poll", job_id |-> job_id,
               present |-> s3_key(job_id) \in DOMAIN storage,
               response |-> CheckerResponse(Config, storage, job_id)]
  /\ UNCHANGED <<Config, nextJob, pending, inflight, runs, storage, food, call, pool>>

\* ------------------------------------------------------------- specifications
Submission ==
  \/ \E body \in SubmitBodies : SubmitReject(body)
  \/ \E body \in SubmitBodies, d \in {"202", "refused", "raised"} : SubmitInvoke(body, d)
  \/ \E p \in pending : SubmitReturn(p)

Writes ==
  \/ \E r \in RunIds, put_ok \in BOOLEAN : ExecSaveResult(r, put_ok)
  \/ \E r \in RunIds, put_ok \in BOOLEAN : ExecExcept(r, put_ok)

Dispatched ==
  \E event \in inflight, env \in SearchEnvs \cup GeminiEnvs : ExecStart(event, env)

Polling == \E job_id \in PollIds : Poll(job_id)

\* The pipeline as deployed: every execution is one the starter dispatched.
Next == Submission \/ Dispatched \/ Writes \/ Polling

Spec == Init /\ [][Next]_vars

\* The storage service deletes the record of a job, 48 hours after its
\* creation: every run of the job is long over by then.
Expire(job_id) ==
  /\ s3_key(job_id) \in DOMAIN storage
  /\ \A r \in RunIds : runs[r].job_id = job_id => runs[r].pc \in {"idle", "done"}
  /\ \A ev \in inflight : ev.job_id /= job_id
  /\ storage' = [k \in DOMAIN storage \ {s3_key(job_id)} |-> storage[k]]
  /\ UNCHANGED <<Config, nextJob, pending, inflight, runs, last, food, call, pool>>

Expiry == \E job_id \in JobIds : Expire(job_id)

\* One run of the executor, the polls of its job, and the end of the
\* lifetime of its record.
NextExpiry ==
  \/ /\ \A r \in RunIds : runs[r].pc = "idle"
     /\ \E event \in DirectEvents, env \in SearchEnvs \cup GeminiEnvs : ExecInvoke(event, env)
  \/ Writes
  \/ Polling
  \/ Expiry

SpecExpiry == Init /\ [][NextExpiry]_vars

\* The executor and the poller alone, the executor invoked with any event.
Invoked ==
  \E event \in DirectEvents, env \in SearchEnvs \cup GeminiEnvs : ExecInvoke(event, env)

NextInvoke == Invoked \/ Writes \/ Polling

SpecInvoke == Init /\ [][NextInvoke]_vars

\* The boundary of the pipeline, one request at a time: a submission of any
\* main_type, or an executor payload whose coordinates are numbers, 0 among
\* them, each followed to its end.
BoundaryBodies == SubmitBodies \cup {ValidBody(OTHER_TYPE)}

BoundaryEvents ==
  [job_id : JobIds, lat : {0, Center.lat}, lng : {0, Center.lng}, main_type : {FOOD}]

Untouched ==
  /\ nextJob = 0 /\ pending = {} /\ inflight = {} /\ last = NoLast
  /\ \A r \in RunIds : runs[r].pc = "idle"

NextBoundary ==
  \/ Untouched /\ \E body \in BoundaryBodies : SubmitReject(body)
  \/ Untouched /\ \E body \in BoundaryBodies, d \in {"202", "refused", "raised"} :
                     SubmitInvoke(body, d)
  \/ \E p \in pending : SubmitReturn(p)
  \/ Dispatched
  \/ Untouched /\ \E event \in BoundaryEvents : ExecInvoke(event, BaseEnv)
  \/ Writes

SpecBoundary == Init /\ [][NextBoundary]_vars

\* The pipeline under the scheduling of the platform: a returned handler's
\* response is delivered, a dispatched payload is run, a run reaches its end.
\* Polls are not among its steps: a poll reads the storage and changes nothing
\* a submission or a run reads.
NextFair == Submission \/ Dispatched \/ Writes

SpecFair ==
  /\ Init /\ [][NextFair]_vars
  /\ WF_vars(\E p \in pending : SubmitReturn(p))
  /\ WF_vars(Dispatched)
  /\ WF_vars(Writes)

\* ------------------------------------------------ the food category, by phase
\* The candidates of a nearby search: n places, place i of rating
\* (a * i + b) mod (MaxRating + 1) and of place_id i, or of no place_id when
\* fault says so; the pages hold PageLen of them each.
Candidates(n, a, b, fault) ==
  [i \in 1..n |->
     [place_id |-> IF fault.kind = "no_place_id" /\ fault.at = i THEN 0 ELSE i,
      rating |-> (a * i + b) % (MaxRating + 1)]]

RECURSIVE PagesOf(_)
PagesOf(cands) ==
  IF cands = <<>> THEN <<StatusPage("ZERO_RESULTS")>>
  ELSE IF Len(cands) <= PageLen THEN <<OkPage(cands, FALSE)>>
  ELSE <<OkPage(SubSeq(cands, 1, PageLen), TRUE)>>
       \o PagesOf(SubSeq(cands, PageLen + 1, Len(cands)))

Faults(n) ==
  {NoFault} \cup
  [kind : {"no_place_id", "not_ok", "http", "no_geometry", "no_photo", "upload"},
   at : 1..n]

FoodEnv(n, a, b, fault, summary) ==
  [BaseEnv EXCEPT
     !.pages = PagesOf(Candidates(n, a, b, fault)),
     !.fault = fault,
     !.detail_rating = [p \in 0..(MaxPlaces + 1) |-> (a * p + b) % (MaxRating + 1)],
     !.summary = summary]

\* The answers to the summary request: every summary, text that is no JSON,
\* the summaries of the places of odd place_id only.
SummaryResponses ==
  { BaseEnv.summary,
    [BaseEnv.summary EXCEPT !.text = "garbage"],
    [BaseEnv.summary EXCEPT !.ids = {p \in 1..(MaxPlaces + 1) : p % 2 = 1}] }

FoodEnvs ==
  { FoodEnv(n, a, b, fault, t) :
      n \in 0..MaxPlaces, a \in 0..MaxRating, b \in 0..MaxRating,
      fault \in Faults(MaxPlaces), t \in SummaryResponses }

FullConfig ==
  [GOOGLE_PLACES_API_KEY |-> TRUE, GEMINI_API_KEY |-> TRUE, S3_BUCKET_NAME |-> TRUE]

InitFood ==
  /\ Config = FullConfig
  /\ nextJob = 0
  /\ pending = {}
  /\ inflight = {}
  /\ runs = [r \in RunIds |-> IdleRun]
  /\ storage = [k \in {} |-> {}]
  /\ last = NoLast
  /\ food \in {[FoodIdle EXCEPT !.phase = "start", !.env = e] : e \in FoodEnvs}
  /\ call = CallIdle
  /\ pool = PoolIdle

\* fetch_data_and_process_images of a food request at the search centre.
FoodFetch ==
  /\ food.phase = "start"
  /\ LET f == fetch_data_and_process_images(Config, food.env, Center.lat, Center.lng, FOOD)
     IN  food' = IF f.raised
                   THEN [food EXCEPT !.phase = "raised", !.err = f.err]
                   ELSE [food EXCEPT !.phase = "fetched", !.processed_places = f.value]
  /\ UNCHANGED <<Config, nextJob, pending, inflight, runs, storage, last, call, pool>>

\* The result of the executor: the empty document, or
\* generate_content_and_format of the places.
FoodGenerate ==
  /\ food.phase = "fetched"
  /\ LET g == generate_content_and_format(food.env, food.processed_places, FOOD, 1)
         prompts == summary_requests(food.processed_places, FOOD)
     IN  food' = IF food.processed_places = <<>>
                   THEN [food EXCEPT !.phase = "done", !.result = EmptyResult(1)]
                 ELSE IF g.raised
                   THEN [food EXCEPT !.phase = "raised", !.err = g.err, !.prompts = prompts]
                 ELSE [food EXCEPT !.phase = "done", !.result = g.value,
                                   !.prompts = prompts]
  /\ UNCHANGED <<Config, nextJob, pending, inflight, runs, storage, last, call, pool>>

NextFood == FoodFetch \/ FoodGenerate

SpecFood == InitFood /\ [][NextFood]_vars

\* The reviews of a place: n reviews, the i-th with the text i, (l * i) mod 3
\* likes (none when that is 0) and the rating 1 + (r * i) mod 5; for t > 0 the
\* reviews at the multiples of t have no text.
Reviews(n, l, r, t) ==
  [i \in 1..n |->
     [text |-> IF t > 0 /\ i % t = 0 THEN 0 ELSE i,
      likes |-> IF (l * i) % 3 = 0 THEN NONE ELSE (l * i) % 3,
      rating |-> 1 + ((r * i) % 5)]]

\* Food requests of one place with some reviews.
ReviewEnvs ==
  { [FoodEnv(1, 0, 0, NoFault, BaseEnv.summary) EXCEPT !.reviews = Reviews(n, l, r, t)] :
      n \in 0..MaxReviews, l \in 0..2, r \in 0..4, t \in 0..4 }

\* Food requests whose lookups, uploads and summaries all succeed.
InitSearch ==
  /\ Config = FullConfig
  /\ nextJob = 0
  /\ pending = {}
  /\ inflight = {}
  /\ runs = [r \in RunIds |-> IdleRun]
  /\ storage = [k \in {} |-> {}]
  /\ last = NoLast
  /\ food \in { [FoodIdle EXCEPT !.phase = "start",
                                 !.env = FoodEnv(n, a, b, NoFault, BaseEnv.summary)] :
                   n \in 0..MaxPlaces, a \in 0..MaxRating, b \in 0..MaxRating }
  /\ call = CallIdle
  /\ pool = PoolIdle

SpecSearch == InitSearch /\ [][NextFood]_vars

\* Food requests of a few places whose details may lack a field: the name,
\* the geometry, or the lat of the location.
DetailEnvs ==
  { FoodEnv(n, a, b, fault, BaseEnv.summary) :
      n \in 0..MaxDetails, a \in 0..MaxRating, b \in 0..MaxRating,
      fault \in {NoFault} \cup [kind : {"no_name", "no_geometry", "no_lat"},
                                 at : 1..MaxDetails] }
  \cup ReviewEnvs

InitDetail ==
  /\ Config = FullConfig
  /\ nextJob = 0
  /\ pending = {}
  /\ inflight = {}
  /\ runs = [r \in RunIds |-> IdleRun]
  /\ storage = [k \in {} |-> {}]
  /\ last = NoLast
  /\ food \in {[FoodIdle EXCEPT !.phase = "start", !.env = e] : e \in DetailEnvs}
  /\ call = CallIdle
  /\ pool = PoolIdle

SpecDetail == InitDetail /\ [][NextFood]_vars

\* --------------------------------------- the generative categories, by phase
\* The responses of the generative provider to an events request. Candidate i
\* of an ordering response is named (a * i) % 11, so the names are pairwise
\* distinct and in no order; F holds the positions of the flea markets.
OrderingResponses ==
  { [i \in 1..n |-> GeminiPlace((a * i) % 11, NONE, i \in F)] :
      n \in 0..MaxCandidates, a \in 1..MaxMult, F \in SUBSET (1..MaxCandidates) }

GenerativeEnv(places, geocode_ok) ==
  [BaseEnv EXCEPT !.gemini = [text |-> "array", fenced |-> FALSE, places |-> places],
                  !.geocode_ok = geocode_ok]

\* Two candidates, the first with every combination of latitude, longitude
\* and address given, not given (None, no address) or zero.
CoordinateResponses ==
  { << [GeminiPlace(1, la, FALSE) EXCEPT !.longitude = lo, !.address = ad],
       GeminiPlace(2, NONE, FALSE) >> :
      la \in {NONE, 0, 36}, lo \in {NONE, 0, 136}, ad \in {0, 1} }

\* Two candidates, each with or without a past-time keyword in its text.
DatedResponses ==
  { << [GeminiPlace(1, NONE, FALSE) EXCEPT !.past = p1],
       [GeminiPlace(2, NONE, TRUE) EXCEPT !.past = p2] >> : p1, p2 \in BOOLEAN }

EventEnvs ==
  { GenerativeEnv(ps, TRUE) : ps \in OrderingResponses \cup DatedResponses }
  \cup { GenerativeEnv(ps, ok) : ps \in CoordinateResponses, ok \in BOOLEAN }

\* The answers to an attractions request: n candidates named 1..n, the text
\* search finding those in found, and one fault of the detail lookups or of
\* the uploads.
AttractionEnvs ==
  { [GenerativeEnv([i \in 1..n |-> GeminiPlace(i, NONE, FALSE)], TRUE)
       EXCEPT !.found = found, !.fault = fault] :
      n \in 0..MaxCandidates,
      found \in SUBSET (1..3),
      fault \in {NoFault} \cup [kind : {"not_ok", "http", "no_photo", "upload"}, at : 1..2] }

CallStart(main_type, env) ==
  [phase |-> "start", main_type |-> main_type, env |-> env,
   processed_places |-> <<>>, result |-> <<>>, err |-> ""]

InitGenerative ==
  /\ Config = FullConfig
  /\ nextJob = 0
  /\ pending = {}
  /\ inflight = {}
  /\ runs = [r \in RunIds |-> IdleRun]
  /\ storage = [k \in {} |-> {}]
  /\ last = NoLast
  /\ food = FoodIdle
  /\ call \in {CallStart(EVENTS, e) : e \in EventEnvs}
            \cup {CallStart(ATTRACTION, e) : e \in AttractionEnvs}
  /\ pool = PoolIdle

\* fetch_data_and_process_images of a request of a generative category.
GenerativeFetch ==
  /\ call.phase = "start"
  /\ LET f == fetch_data_and_process_images(Config, call.env, Center.lat, Center.lng,
                                            call.main_type)
     IN  call' = IF f.raised
                   THEN [call EXCEPT !.phase = "raised", !.err = f.err]
                   ELSE [call EXCEPT !.phase = "fetched", !.processed_places = f.value]
  /\ UNCHANGED <<Config, nextJob, pending, inflight, runs, storage, last, food, pool>>

\* The result of the executor: the empty document, or
\* generate_content_and_format of the places.
GenerativeGenerate ==
  /\ call.phase = "fetched"
  /\ LET g == generate_content_and_format(call.env, call.processed_places,
                                          call.main_type, 1)
     IN  call' = IF call.processed_places = <<>>
                   THEN [call EXCEPT !.phase = "done", !.result = EmptyResult(1)]
                 ELSE IF g.raised
                   THEN [call EXCEPT !.phase = "raised", !.err = g.err]
                 ELSE [call EXCEPT !.phase = "done", !.result = g.value]
  /\ UNCHANGED <<Config, nextJob, pending, inflight, runs, storage, last, food, pool>>

NextGenerative == GenerativeFetch \/ GenerativeGenerate

SpecGenerative == InitGenerative /\ [][NextGenerative]_vars

\* ------------------------------------------------------------ the assembler
\* The places handed to format_places_to_markers: n places named 1..n, the
\* i-th of rating (r + a * i) mod (RATING_SCALE + 1); a = 0 gives every place
\* the rating r.
ScoredPlaces(n, r, a) ==
  [i \in 1..n |->
     [place_id |-> i, name |-> i, rating |-> (r + a * i) % (RATING_SCALE + 1),
      website |-> 0, summary |-> SummaryOf(i), lat |-> Center.lat, lng |-> Center.lng]]

FormatCalls ==
  { [CallStart(OTHER_TYPE, BaseEnv) EXCEPT !.phase = "places",
                                           !.processed_places = ScoredPlaces(n, r, a)] :
      n \in 1..MaxScored, r \in 0..RATING_SCALE, a \in {0, 7} }

InitFormat ==
  /\ Config = FullConfig
  /\ nextJob = 0
  /\ pending = {}
  /\ inflight = {}
  /\ runs = [r \in RunIds |-> IdleRun]
  /\ storage = [k \in {} |-> {}]
  /\ last = NoLast
  /\ food = FoodIdle
  /\ call \in FormatCalls
  /\ pool = PoolIdle

FormatMarkers ==
  /\ call.phase = "places"
  /\ call' = [call EXCEPT
               !.phase = "formatted",
               !.result = format_places_to_markers(call.processed_places, call.main_type, 1)]
  /\ UNCHANGED <<Config, nextJob, pending, inflight, runs, storage, last, food, pool>>

NextFormat == FormatMarkers

SpecFormat == InitFormat /\ [][NextFormat]_vars

\* ------------------------------------------------ the uploads of a food job
\* A place name is a sequence of characters. safe_place_name keeps the
\* alphanumeric characters, ' ', '-' and '_', strips the ends and keeps the
\* first KEY_NAME_LENGTH characters.
IsKept(c) == c \in {"a", "b", " ", "-", "_"}
RECURSIVE Strip(_)
Strip(t) ==
  IF t = <<>> THEN t
  ELSE IF Head(t) = " " THEN Strip(Tail(t))
  ELSE IF t[Len(t)] = " " THEN Strip(SubSeq(t, 1, Len(t) - 1))
  ELSE t
safe_place_name(place_name) ==
  Take(Strip(SelectSeq(place_name, IsKept)), KEY_NAME_LENGTH)

\* The key upload_image_to_s3 writes for a place name at the second now: the
\* pair of int(time.time()) and the safe name with '_' for ' '. The prefix
\* and the suffix are the same for every key.
image_key(place_name, now) ==
  <<now, [k \in 1..Len(safe_place_name(place_name)) |->
            IF safe_place_name(place_name)[k] = " " THEN "_"
            ELSE safe_place_name(place_name)[k]]>>

PlaceNames ==
  UNION {[1..n -> {"a", "b", " ", "!"}] : n \in 1..MaxNameLen}

\* The pool of the food path: one future for each place, the i-th place with
\* the photo_reference i; clock is the second, objects the images stored
\* under their keys, s3_image_url the key each place got.
UploadStart(names) ==
  [phase |-> "uploading", names |-> names, pending |-> DOMAIN names, clock |-> 0,
   objects |-> <<>>, s3_image_url |-> [i \in DOMAIN names |-> NONE]]

InitUpload ==
  /\ Config = FullConfig
  /\ nextJob = 0
  /\ pending = {}
  /\ inflight = {}
  /\ runs = [r \in RunIds |-> IdleRun]
  /\ storage = [k \in {} |-> {}]
  /\ last = NoLast
  /\ food = FoodIdle
  /\ call = CallIdle
  /\ pool \in {UploadStart(names) : names \in [1..MaxUploads -> PlaceNames]}

\* upload_image_to_s3 of place i in its thread: the image goes under the key
\* of the place's name at the current second, replacing what is there.
FoodUpload(i) ==
  /\ pool.phase = "uploading"
  /\ i \in pool.pending
  /\ LET s3_image_key == image_key(pool.names[i], pool.clock)
     IN  pool' = [pool EXCEPT
                    !.pending = @ \ {i},
                    !.objects = [k \in DOMAIN @ \cup {s3_image_key} |->
                                   IF k = s3_image_key THEN i ELSE @[k]],
                    !.s3_image_url[i] = s3_image_key]
  /\ UNCHANGED <<Config, nextJob, pending, inflight, runs, storage, last, food, call>>

\* A second passes.
ClockTick ==
  /\ pool.phase = "uploading"
  /\ pool.clock < MaxSeconds
  /\ pool' = [pool EXCEPT !.clock = @ + 1]
  /\ UNCHANGED <<Config, nextJob, pending, inflight, runs, storage, last, food, call>>

NextUpload == (\E i \in 1..MaxUploads : FoodUpload(i)) \/ ClockTick

SpecUpload == InitUpload /\ [][NextUpload]_vars

\* ------------------------------------------------- the blocks of a marker
\* The places handed to format_places_to_markers with every combination of a
\* website, an s3_image_url and a list of s3_image_urls.
ImageLists == {<<>>, <<501>>, <<502, 501>>}
BlockPlaces(n) ==
  [1..n -> [place_id : {1}, name : {1}, rating : {RATING_SCALE}, website : {0, 9},
            summary : {SummaryOf(1)}, lat : {Center.lat}, lng : {Center.lng},
            s3_image_url : {NONE, 500}, s3_image_urls : ImageLists]]

BlockCalls ==
  { [CallStart(t, BaseEnv) EXCEPT !.phase = "places", !.processed_places = places] :
      t \in {FOOD, ATTRACTION, EVENTS, OTHER_TYPE},
      places \in UNION {BlockPlaces(n) : n \in 1..MaxMarked} }

InitBlocks ==
  /\ Config = FullConfig
  /\ nextJob = 0
  /\ pending = {}
  /\ inflight = {}
  /\ runs = [r \in RunIds |-> IdleRun]
  /\ storage = [k \in {} |-> {}]
  /\ last = NoLast
  /\ food = FoodIdle
  /\ call \in BlockCalls
  /\ pool = PoolIdle

SpecBlocks == InitBlocks /\ [][NextFormat]_vars

\* ------------------------------------------- the uploads of one attraction
InitPool ==
  /\ Config = FullConfig
  /\ nextJob = 0
  /\ pending = {}
  /\ inflight = {}
  /\ runs = [r \in RunIds |-> IdleRun]
  /\ storage = [k \in {} |-> {}]
  /\ last = NoLast
  /\ food = FoodIdle
  /\ call = CallIdle
  /\ pool \in { PoolStart(n, refs, fails) :
                  n \in 1..MaxPhotos,
                  refs \in SUBSET (0..(MaxPhotos - 1)),
                  fails \in SUBSET (0..(MaxPhotos - 1)) }

\* Variant: PoolComplete that appends the URL to the list on completion.
PoolCompleteAppend(idx) ==
  /\ pool.phase = "running"
  /\ idx \in pool.pending
  /\ LET s3_url == upload_image_to_s3(pool, idx)
     IN  pool' = [pool EXCEPT
                   !.pending = @ \ {idx},
                   !.completed = Append(@, idx),
                   !.s3_urls = IF s3_url /= NONE THEN Append(@, s3_url) ELSE @]
  /\ UNCHANGED <<Config, nextJob, pending, inflight, runs, storage, last, food, call>>

\* The future of the photo at index idx is the next that as_completed
\* yields: its URL, if it has one, goes to the slot of its index.
PoolComplete(idx) ==
  /\ pool.phase = "running"
  /\ idx \in pool.pending
  /\ LET s3_url == upload_image_to_s3(pool, idx)
     IN  pool' = [pool EXCEPT
                   !.pending = @ \ {idx},
                   !.completed = Append(@, idx),
                   !.s3_urls = IF s3_url /= NONE THEN [@ EXCEPT ![idx + 1] = s3_url] ELSE @]
  /\ UNCHANGED <<Config, nextJob, pending, inflight, runs, storage, last, food, call>>

\* Every future was yielded: s3_image_urls = [url for url in s3_urls if url].
PoolCollect ==
  /\ pool.phase = "running"
  /\ pool.pending = {}
  /\ pool' = [pool EXCEPT
               !.phase = "collected",
               !.s3_image_urls = SelectSeq(pool.s3_urls, LAMBDA url : TruthyNum(url))]
  /\ UNCHANGED <<Config, nextJob, pending, inflight, runs, storage, last, food, call>>

NextPool == (\E idx \in 0..(MaxPhotos - 1) : PoolComplete(idx)) \/ PoolCollect

SpecPool == InitPool /\ [][NextPool]_vars

\* ===================================================================== claims
\* What the stages of run r do under the answers the run got, stage by stage.
RunFetch(r) ==
  fetch_data_and_process_images(Config, runs[r].env, FloatOrZero(runs[r].lat),
                                FloatOrZero(runs[r].lng), runs[r].main_type)
RunGenerate(r) ==
  generate_content_and_format(runs[r].env, RunFetch(r).value, runs[r].main_type, r)
StagesSucceed(r) ==
  /\ ConfigValid(Config)
  /\ TruthyNum(FloatOrZero(runs[r].lat)) /\ TruthyNum(FloatOrZero(runs[r].lng))
  /\ TruthyStr(runs[r].main_type)
  /\ ~RunFetch(r).raised
  /\ RunFetch(r).value = <<>> \/ ~RunGenerate(r).raised
AssembledResult(r) ==
  IF RunFetch(r).value = <<>> THEN EmptyResult(r) ELSE RunGenerate(r).value
Started(r) == runs[r].pc /= "idle"
Record(job_id) == loads(storage[s3_key(job_id)])
HasRecord(job_id) == s3_key(job_id) \in DOMAIN storage

\* C1: the record under a job's key is written at most once: once a record
\* exists under a key, no step replaces or changes it, whatever events the
\* executor is invoked with (the same job_id twice, or none at all).
C1_RecordWrittenOnce ==
  [][\A k \in DOMAIN storage : k \in DOMAIN storage' /\ storage'[k] = storage[k]]_vars

\* C2: in one run, when every stage and the write succeed the record is
\* completed and carries the assembled result; when a stage raises, or the
\* completed write fails, and the error write is accepted, the record is
\* failed with the error text; a run never persists completed after a failure.
C2_RecordFollowsOutcome ==
  \A r \in RunIds :
    runs[r].pc = "done" =>
      LET job == runs[r].job_id
          put_failed == runs[r].err = "put_object failed"
      IN  /\ StagesSucceed(r) /\ ~put_failed =>
                /\ HasRecord(job)
                /\ Record(job).status = "completed"
                /\ Record(job).result = AssembledResult(r)
          /\ (~StagesSucceed(r) \/ put_failed) /\ runs[r].error_puts = 1 /\ HasRecord(job) =>
                /\ Record(job).status = "failed"
                /\ Record(job).error = runs[r].err
                /\ runs[r].err /= ""
                /\ (~StagesSucceed(r) /\ RunFetch(r).raised /\ ConfigValid(Config)
                      => Record(job).error = RunFetch(r).err)
          /\ (~StagesSucceed(r) \/ put_failed) =>
                /\ runs[r].wrote /= "completed"
                /\ HasRecord(job) => Record(job).status /= "completed"

C2_Witness ==
  \E r \in RunIds :
    /\ runs[r].pc = "done" /\ runs[r].err = "put_object failed"
    /\ HasRecord(runs[r].job_id) /\ Record(runs[r].job_id).status = "failed"

\* C3: an events job whose generative response parses to an empty array ends
\* failed with a non-empty error, and never writes a completed record.
C3_EmptyArrayFails ==
  \A r \in RunIds :
    /\ Started(r) /\ runs[r].main_type = EVENTS /\ ConfigValid(Config)
    /\ runs[r].env.gemini.text = "array" /\ runs[r].env.gemini.places = <<>>
    => /\ runs[r].wrote /= "completed"
       /\ runs[r].pc /= "save"

ProcessingResponse(job_id) ==
  [statusCode |-> 200,
   body |-> [jobId |-> job_id, status |-> "processing", retryAfter |-> 5]]
PolledJob == last.by = "poll" /\ last.job_id /= NONE
RunsOf(job_id) == {r \in RunIds : Started(r) /\ runs[r].job_id = job_id}

\* C4: a poll that finds no record under the job's key answers processing
\* with the retry delay, never an error; a poll that finds a record answers
\* from a terminal record, the one the storage holds from then on, so a poll
\* between dispatch and terminal write, or during the write, sees one or the
\* other and nothing in between.
C4_PollSeesProcessingOrTerminal ==
  PolledJob =>
    /\ ~last.present => last.response = ProcessingResponse(last.job_id)
    /\ last.present =>
         /\ HasRecord(last.job_id)
         /\ last.response.statusCode = 200
         /\ last.response.body.status \in {"completed", "failed"}
         /\ last.response.body.status = Record(last.job_id).status
         /\ last.response.body.completedAt = Record(last.job_id).completedAt
         /\ \E r \in RunsOf(last.job_id) :
              runs[r].pc = "done" /\ runs[r].wrote = last.response.body.status

C4_Witness ==
  /\ PolledJob /\ ~last.present
  /\ \E r \in RunsOf(last.job_id) : runs[r].pc \in {"save", "except"}

\* C5: a poll writes nothing to the storage, and the result a completed poll
\* returns is the document the run assembled and persisted: polling again
\* returns the same response.
C5_PollReadOnlySameDocument ==
  /\ [](PolledJob /\ last.response.body.status = "completed" =>
          /\ \E r \in RunsOf(last.job_id) :
               last.response.body.result = AssembledResult(r)
          /\ CheckerResponse(Config, storage, last.job_id) = last.response)
  /\ [][(\E job_id \in PollIds : Poll(job_id)) => storage' = storage]_vars

C5_Witness ==
  /\ PolledJob /\ last.response.body.status = "completed"
  /\ last.response.body.result.markers /= <<>>

\* C6: the acknowledgement is ready to be returned whatever the state of the
\* execution, it is the job id with status processing whatever the execution
\* does, and no response of the submission carries an outcome of the execution.
C6_AcknowledgementIgnoresExecution ==
  /\ \A p \in pending : ENABLED SubmitReturn(p)
  /\ \A p \in pending :
       p.response.statusCode = 202 =>
         p.response.body = [jobId |-> p.job_id, status |-> "processing"]
  /\ last.by = "submit" =>
       \/ last.response \in {BadJsonResponse, MissingParamResponse,
                             ServerErrorResponse("refused"), ServerErrorResponse("raised")}
       \/ last.response.body = [jobId |-> last.job_id, status |-> "processing"]

C6_Witness ==
  /\ last.by = "submit" /\ last.response = Acknowledgement(last.job_id)
  /\ \E r \in RunsOf(last.job_id) : runs[r].pc = "done" /\ runs[r].wrote = "failed"

LacksRequired(body) ==
  body.json_ok /\ (body.lat = NONE \/ body.lng = NONE \/ body.main_type = "")

\* C7: a submission whose body lacks lat, lng or main_type is answered with
\* status 400 and an error message, dispatches no execution and leaves the
\* storage as it is.
C7_MissingParameterRejected ==
  [][\A body \in {b \in SubmitBodies : LacksRequired(b)} :
       /\ body.json_ok
       /\ SubmitReject(body) \/ \E d \in {"202", "refused", "raised"} : SubmitInvoke(body, d)
       => /\ last'.by = "submit"
          /\ last'.response.statusCode = 400
          /\ last'.response.body.error /= ""
          /\ inflight' = inflight /\ pending' = pending
          /\ runs' = runs /\ storage' = storage]_vars

C7_Witness ==
  last.by = "submit" /\ last.response = MissingParamResponse

Acknowledged(job_id) ==
  \/ \E ev \in inflight : ev.job_id = job_id
  \/ RunsOf(job_id) /= {}
Ended(job_id) ==
  RunsOf(job_id) /= {} /\ \A r \in RunsOf(job_id) : runs[r].pc = "done"
ErrorWriteFailed(job_id) ==
  \E r \in RunsOf(job_id) : runs[r].wrote = "none" /\ runs[r].error_puts = 1
TerminalRecord(job_id) ==
  HasRecord(job_id) /\ Record(job_id).status \in {"completed", "failed"}

\* C8 as stated: every acknowledged job ends with a terminal record, so no
\* ended execution leaves its job without one.
C8_EndedJobHasRecord ==
  \A job_id \in JobIds : Ended(job_id) => TerminalRecord(job_id)

\* C8: under fair scheduling every acknowledged job's execution ends, and it
\* then has one terminal record readable by the poller, unless the write of
\* the failed record itself failed, in which case it has none. A job once
\* acknowledged stays so, hence "always eventually, every acknowledged job".
C8_AcknowledgedJobEnds ==
  []<>(\A job_id \in JobIds :
    Acknowledged(job_id) =>
      /\ Ended(job_id)
      /\ TerminalRecord(job_id) /= ErrorWriteFailed(job_id)
      /\ TerminalRecord(job_id) =>
           CheckerResponse(Config, storage, job_id).body.status = Record(job_id).status)

C8_Witness ==
  \E job_id \in JobIds :
    /\ Ended(job_id) /\ TerminalRecord(job_id)
    /\ last.by = "submit" /\ last.response = Acknowledgement(job_id)

\* C9: when a run fails and its one write of the failed record fails too, the
\* run ends with no further attempt, no record exists for the job, and polls
\* of the job answer processing.
C9_FailedErrorWriteLeavesNoRecord ==
  \A r \in RunIds :
    runs[r].pc = "done" /\ runs[r].err /= "" /\ runs[r].wrote = "none" =>
      /\ runs[r].error_puts = 1
      /\ ~HasRecord(runs[r].job_id)
      /\ CheckerResponse(Config, storage, runs[r].job_id)
           = ProcessingResponse(runs[r].job_id)
      /\ PolledJob /\ last.job_id = runs[r].job_id =>
           last.response = ProcessingResponse(runs[r].job_id)

C9_Witness ==
  \E r \in RunIds :
    /\ runs[r].pc = "done" /\ runs[r].err /= "" /\ runs[r].wrote = "none"
    /\ PolledJob /\ last.job_id = runs[r].job_id

\* The food request's collected candidates, in the order of the search, and
\* what the completed document holds.
Collected ==
  NearbyLoop(food.env.pages, 1, <<>>, <<>>, get_max_results(FOOD)).value.all_places
Markers == food.result.markers
\* The place of candidate i among the candidates c by descending rating, equal
\* ratings in the order of the search.
RankOf(c, i) ==
  1 + Cardinality({j \in 1..Len(c) :
        \/ c[j].rating > c[i].rating
        \/ c[j].rating = c[i].rating /\ j < i})
HighestRated(c) == {i \in 1..Len(c) : RankOf(c, i) <= FOOD_MAX_RESULTS}
Dropped(c) ==
  {i \in 1..Len(c) :
     \/ c[i].place_id = 0
     \/ DetailsResponse(food.env, c[i].place_id).status /= "OK"}
CandidateOf(c, marker) == CHOOSE i \in 1..Len(c) : c[i].place_id = marker.title
MarkersDescending(c, m) ==
  \A k \in 1..(Len(m) - 1) :
    c[CandidateOf(c, m[k])].rating >= c[CandidateOf(c, m[k + 1])].rating

\* C10 as stated: with at least FOOD_MAX_RESULTS candidates collected, the
\* completed document holds exactly FOOD_MAX_RESULTS markers, those of the
\* highest-rated candidates, in descending order of search rating.
C10_ExactlyFiveHighestRated ==
  food.phase = "done" =>
    LET c == Collected
        top == HighestRated(c)
    IN  Len(c) >= FOOD_MAX_RESULTS =>
          /\ Len(Markers) = FOOD_MAX_RESULTS
          /\ \A k \in 1..Len(Markers) :
               \E i \in top : c[i].place_id = Markers[k].title
          /\ MarkersDescending(c, Markers)

\* C10: with at least FOOD_MAX_RESULTS candidates collected, the completed
\* document holds one marker for each of the FOOD_MAX_RESULTS highest-rated
\* candidates that has a place_id and an OK detail lookup, and no other: at
\* most FOOD_MAX_RESULTS, exactly that many when none of them is dropped, in
\* descending order of search rating, equal ratings in the order of the search.
C10_HighestRatedSurvivors ==
  food.phase = "done" =>
    LET c == Collected
        top == HighestRated(c)
        kept == top \ Dropped(c)
        rank == [i \in kept |-> RankOf(c, i)]
    IN  Len(c) >= FOOD_MAX_RESULTS =>
          /\ Len(Markers) = Cardinality(kept)
          /\ Len(Markers) <= FOOD_MAX_RESULTS
          /\ kept = top => Len(Markers) = FOOD_MAX_RESULTS
          /\ \A k \in 1..Len(Markers) :
               \E i \in kept :
                 /\ c[i].place_id = Markers[k].title
                 /\ Cardinality({j \in kept : rank[j] < rank[i]}) = k - 1
          /\ MarkersDescending(c, Markers)

C10_Witness ==
  /\ food.phase = "done" /\ Len(Collected) = 12
  /\ Len(Markers) = FOOD_MAX_RESULTS
  /\ LET c == Collected
     IN  /\ c[CandidateOf(c, Markers[1])].rating
               > c[CandidateOf(c, Markers[FOOD_MAX_RESULTS])].rating
         /\ \E i \in HighestRated(c) : c[i].rating > c[1].rating

\* The named candidates of the generative response of the call, in the order
\* of the response, and the candidate a marker was built from.
NamedCandidates(response) == SelectSeq(response.places, LAMBDA p : p.name /= 0)
CallMarkers == call.result.markers
SourceOf(c, marker) == CHOOSE i \in 1..Len(c) : c[i].name = marker.title
\* x is ahead of y: a flea market ahead of any other event, then by name.
Ahead(x, y) ==
  \/ x.flea /\ ~y.flea
  \/ x.flea = y.flea /\ x.name < y.name

\* C11: the markers of an events job place every flea-market candidate before
\* every other candidate, each group in ascending order of name, and the cut
\* to MARKET_MAX_RESULTS comes after the sort: every candidate left out is
\* behind every candidate kept.
C11_FleaMarketsFirst ==
  call.phase = "done" /\ call.main_type = EVENTS =>
    LET c == NamedCandidates(call.env.gemini)
        m == CallMarkers
        kept == {SourceOf(c, m[k]) : k \in 1..Len(m)}
    IN  /\ Len(m) = Min(Len(c), MARKET_MAX_RESULTS)
        /\ \A k \in 1..Len(m) : \E i \in 1..Len(c) : c[i].name = m[k].title
        /\ \A k \in 1..(Len(m) - 1) :
             Ahead(c[SourceOf(c, m[k])], c[SourceOf(c, m[k + 1])])
        /\ \A i \in (1..Len(c)) \ kept : \A j \in kept : Ahead(c[j], c[i])

C11_Witness ==
  /\ call.phase = "done" /\ call.main_type = EVENTS
  /\ LET c == NamedCandidates(call.env.gemini)
     IN  /\ Len(c) = MaxCandidates
         /\ Cardinality({i \in 1..Len(c) : c[i].flea}) = 3
         /\ ~c[1].flea /\ c[MaxCandidates].flea
         /\ \E i \in 1..(Len(c) - 1) : c[i].name > c[i + 1].name


\* ------------------------------------------------------------------------ C12
\* The score the statement gives, in hundredths: 0.5 + rating / 10 - 0.05 *
\* index, at least 0.1.
StatedScore(rating, index) ==
  LET raw == 50 + rating - 5 * index
  IN  IF raw >= 10 THEN raw ELSE 10

ScoresAsStated(c, m) ==
  /\ Len(m) = Len(c)
  /\ \A k \in 1..Len(m) :
       /\ m[k].relevanceScore = StatedScore(c[k].rating, k - 1)
       /\ m[k].relevanceScore >= 10
       /\ m[k].relevanceScore <= 100

Supplied(x) == x.latitude /= NONE /\ x.longitude /= NONE

\* The first success of the chain for candidate x: supplied coordinates, the
\* geocoding result for the address, the search centre.
ChainCoordinates(env, x) ==
  LET geo == geocode_address(env, x.address)
  IN  IF Supplied(x) THEN <<x.latitude, x.longitude>>
      ELSE IF geo /= NONE THEN <<geo, geo + 100>>
      ELSE <<Center.lat, Center.lng>>

\* C13: every events marker carries the first success of the chain supplied
\* coordinates, geocoding result, search centre; geocoding is attempted only
\* for a candidate without supplied coordinates; and when geocoding always
\* fails, a candidate without supplied coordinates gets the search centre,
\* not (0, 0).
C13_CoordinateChain ==
  call.phase = "done" /\ call.main_type = EVENTS =>
    LET c == NamedCandidates(call.env.gemini)
        m == CallMarkers
    IN  \A k \in 1..Len(m) :
          LET x == c[SourceOf(c, m[k])]
          IN  /\ <<m[k].latitude, m[k].longitude>> = ChainCoordinates(call.env, x)
              /\ call.processed_places[k].geocoded => ~Supplied(x)
              /\ ~call.env.geocode_ok /\ ~Supplied(x) =>
                   /\ <<m[k].latitude, m[k].longitude>> = <<Center.lat, Center.lng>>
                   /\ <<m[k].latitude, m[k].longitude>> /= <<0, 0>>


\* ------------------------------------------------------------------------ C14
\* C14: no marker of an events job comes from a candidate whose name or
\* summary holds a past-time keyword, and a candidate with no sign of a time
\* that is within the first MARKET_MAX_RESULTS has a marker.
C14_NoPastEvents ==
  call.phase = "done" /\ call.main_type = EVENTS =>
    LET c == NamedCandidates(call.env.gemini)
        m == CallMarkers
    IN  /\ \A k \in 1..Len(m) : ~c[SourceOf(c, m[k])].past
        /\ Len(c) <= MARKET_MAX_RESULTS =>
             \A i \in 1..Len(c) : ~c[i].past => \E k \in 1..Len(m) : m[k].title = c[i].name


\* ------------------------------------------------------------------------ C15
\* The detail lookup of a ranked candidate fails: a status other than OK, or no
\* answer that passes raise_for_status (an HTTP error status, a network
\* failure).
LookupFails(c) ==
  /\ food.env.fault.kind \in {"not_ok", "http"}
  /\ \E i \in HighestRated(c) : c[i].place_id = food.env.fault.at

\* C15: a food job in which the detail lookup of one ranked candidate fails
\* does not fail, and its document holds the markers of the other ranked
\* candidates and no marker of that one.
C15_FailedLookupDropsOnlyThatCandidate ==
  LET c == Collected
  IN  LookupFails(c) /\ food.env.summary.text = "array" =>
        /\ food.phase /= "raised"
        /\ food.phase = "done" =>
             {Markers[k].title : k \in 1..Len(Markers)}
               = {c[i].place_id : i \in HighestRated(c)} \ {food.env.fault.at}


\* ------------------------------------------------------------------------ C16
\* The photos of the pool that were uploaded: submitted, and with a URL.
Uploaded(p) == {idx \in p.submitted : idx \notin p.fails}

\* C16: whatever the order in which the uploads of an attraction complete,
\* its image URLs are those of the photos uploaded, each once, in the order
\* of the photos; a failed upload leaves out its own URL only.
C16_PhotoOrderKept ==
  pool.phase = "collected" =>
    LET urls == pool.s3_image_urls
    IN  /\ {urls[k] : k \in 1..Len(urls)} = {idx + 1 : idx \in Uploaded(pool)}
        /\ \A k \in 1..(Len(urls) - 1) : urls[k] < urls[k + 1]

\* The uploads completed last photo first, the middle one failed, and the
\* other two are listed.
C16_Witness ==
  /\ pool.phase = "collected"
  /\ pool.completed = <<2, 1, 0>>
  /\ Uploaded(pool) = {0, 2}
  /\ pool.s3_image_urls = <<1, 3>>


\* ------------------------------------------------------------------------ C17
\* The upload of the image of a ranked candidate fails.
UploadFails(c) ==
  /\ food.env.fault.kind = "upload"
  /\ \E i \in HighestRated(c) : c[i].place_id = food.env.fault.at

\* C17: a food job in which the upload of one ranked candidate's image fails
\* does not fail; every ranked candidate has its marker, the one of the
\* failed upload with an empty headerImage and no image block, each other
\* with its own image as headerImage and as its one image block.
C17_UploadFailureKeepsCandidate ==
  LET c == Collected
  IN  UploadFails(c) /\ food.env.summary.text = "array" =>
        /\ food.phase /= "raised"
        /\ food.phase = "done" =>
             /\ Len(Markers) = Cardinality(HighestRated(c))
             /\ \A i \in HighestRated(c) :
                  \E k \in 1..Len(Markers) :
                    /\ Markers[k].title = c[i].place_id
                    /\ IF c[i].place_id = food.env.fault.at
                         THEN Markers[k].headerImage = 0 /\ Markers[k].image_blocks = <<>>
                         ELSE /\ Markers[k].headerImage = 500 + c[i].place_id
                              /\ Markers[k].image_blocks = <<500 + c[i].place_id>>

\* A completed job of FOOD_MAX_RESULTS markers, the upload of the third failed.
C17_Witness ==
  /\ food.phase = "done"
  /\ UploadFails(Collected)
  /\ Len(Markers) = FOOD_MAX_RESULTS
  /\ Markers[3].title = food.env.fault.at
  /\ Markers[3].headerImage = 0
  /\ Markers[2].headerImage /= 0 /\ Markers[4].headerImage /= 0


\* ------------------------------------------------------------------------ C18
\* C18: an attractions job does not fail on the place resolution, and its
\* document holds, for each of the first ATTRACTION_MAX_RESULTS named
\* candidates and in their order, a marker with the candidate's generative
\* summary, whether the text search and the detail lookup find the place or
\* not.
C18_EveryAttractionCandidateKept ==
  call.phase /= "idle" /\ call.main_type = ATTRACTION =>
    LET c == NamedCandidates(call.env.gemini)
        m == CallMarkers
    IN  /\ call.phase /= "raised"
        /\ call.phase = "done" =>
             /\ Len(m) = Min(Len(c), ATTRACTION_MAX_RESULTS)
             /\ \A k \in 1..Len(m) : m[k].summary = c[k].summary


\* ------------------------------------------------------------------------ C19
\* C19: a food job with at least one place sends one request to the
\* generative provider, carrying every place; when the answer is an array,
\* the job completes with one marker for each place, in order, whose summary
\* is the provider's if the array holds the place_id and the placeholder
\* otherwise.
C19_OneRequestPlaceholderForAbsent ==
  food.phase \in {"done", "raised"} /\ food.processed_places /= <<>> =>
    LET c == food.processed_places
    IN  /\ Len(food.prompts) = 1
        /\ food.prompts[1] = [i \in 1..Len(c) |-> c[i].place_id]
        /\ food.env.summary.text = "array" =>
             /\ food.phase = "done"
             /\ Len(Markers) = Len(c)
             /\ \A i \in 1..Len(c) :
                  /\ Markers[i].title = c[i].name
                  /\ Markers[i].summary =
                       IF c[i].place_id \in food.env.summary.ids
                         THEN SummaryOf(c[i].place_id) ELSE PLACEHOLDER_SUMMARY

\* A completed job of several places, some with the placeholder and some with
\* the provider's summary.
C19_Witness ==
  /\ food.phase = "done"
  /\ Len(food.processed_places) = FOOD_MAX_RESULTS
  /\ Len(food.prompts) = 1
  /\ \E i, j \in 1..Len(Markers) :
       /\ Markers[i].summary = PLACEHOLDER_SUMMARY
       /\ Markers[j].summary = SummaryOf(food.processed_places[j].place_id)


\* ------------------------------------------------------------------------ C20
\* C20: the document of a completed job holds one marker for each place
\* handed to the assembler, the i-th marker built from the i-th place and
\* with the id mk_ followed by i; a job that found no place completes with a
\* document of no marker and does not fail.
C20_OneMarkerPerCandidateInOrder ==
  /\ [](food.phase = "done" =>
         /\ DOMAIN Markers = DOMAIN food.processed_places
         /\ \A i \in DOMAIN Markers :
              /\ Markers[i].id = i
              /\ Markers[i].title = food.processed_places[i].name
              /\ Markers[i].latitude = food.processed_places[i].lat)
  /\ [][food.phase = "fetched" /\ food.processed_places = <<>> =>
          food'.phase = "done" /\ food'.result = EmptyResult(1)]_vars

\* A completed job of several markers.
C20_Witness ==
  /\ food.phase = "done"
  /\ Len(Markers) = FOOD_MAX_RESULTS
  /\ Markers[1].title /= Markers[FOOD_MAX_RESULTS].title
  /\ Markers[FOOD_MAX_RESULTS].id = FOOD_MAX_RESULTS


\* ------------------------------------------------------------------------ C21
\* C21: every place handed to the assembler has a latitude, a longitude and a
\* name that is not empty, and no marker carries the 0 the assembler puts for
\* a missing coordinate.
C21_CandidatesLocatedAndNamed ==
  food.phase \in {"fetched", "done"} =>
    /\ \A i \in 1..Len(food.processed_places) :
         /\ food.processed_places[i].lat /= NONE
         /\ food.processed_places[i].lng /= NONE
         /\ food.processed_places[i].name /= 0
    /\ food.phase = "done" =>
         \A k \in 1..Len(Markers) : Markers[k].latitude /= 0 /\ Markers[k].longitude /= 0


\* ------------------------------------------------------------------------ C22
\* The three categories of a request.
Categories == {FOOD, ATTRACTION, EVENTS}

\* C22: a submission whose main_type is given and is none of the three
\* categories is answered with a client error (status 400) and dispatches
\* nothing.
C22_UnknownCategoryRejected ==
  [][\A body \in {b \in BoundaryBodies : b.main_type \notin Categories \cup {""}} :
       (SubmitReject(body) \/ \E d \in {"202", "refused", "raised"} : SubmitInvoke(body, d))
       => /\ last'.by = "submit"
          /\ last'.response.statusCode = 400
          /\ inflight' = inflight /\ pending' = pending]_vars


\* ------------------------------------------------------------------------ C23
\* The nearby search of the food request, and the number of candidates on the
\* first j pages of the provider.
Search == NearbyLoop(food.env.pages, 1, <<>>, <<>>, get_max_results(FOOD)).value
RECURSIVE OnPages(_, _)
OnPages(pages, j) ==
  IF j = 0 THEN <<>> ELSE OnPages(pages, j - 1) \o pages[j].results
\* Collection may stop after page j: no continuation token, or 3 x
\* FOOD_MAX_RESULTS candidates.
MayStop(pages, j) ==
  \/ ~pages[j].next_page_token
  \/ Len(OnPages(pages, j)) >= 3 * FOOD_MAX_RESULTS
Fetches(trace) == Cardinality({k \in 1..Len(trace) : trace[k] = "get"})

\* C23: the food search fetches the pages up to the first one after which
\* there is no continuation token or at least 3 x FOOD_MAX_RESULTS candidates
\* are collected, and no page after it; the places ranked are those of all
\* the pages fetched, so a place of the last page fetched can be among the
\* FOOD_MAX_RESULTS kept.
C23_CollectionStopsThenRanks ==
  food.phase \in {"fetched", "done"} =>
    LET pages == food.env.pages
        found == Search
        n == Fetches(found.trace)
    IN  /\ n \in 1..Len(pages)
        /\ MayStop(pages, n)
        /\ \A j \in 1..(n - 1) : ~MayStop(pages, j)
        /\ found.all_places = OnPages(pages, n)
        /\ food.env.fault = NoFault =>
             {food.processed_places[k].place_id : k \in 1..Len(food.processed_places)}
               = {found.all_places[i].place_id : i \in HighestRated(found.all_places)}

\* Three pages at the provider, two fetched, and a place of the second page
\* among those kept.
C23_Witness ==
  /\ food.phase = "fetched"
  /\ Len(food.env.pages) = 3
  /\ Fetches(Search.trace) = 2
  /\ food.env.fault = NoFault
  /\ \E k \in 1..Len(food.processed_places) : food.processed_places[k].place_id > PageLen

\* ------------------------------------------------------------------------ C24
\* C24: the first request of the nearby search is issued at once, and every
\* later request comes right after a delay: the calls are get, then sleep and
\* get in turn.
C24_DelayBeforeEveryLaterPage ==
  food.phase \in {"fetched", "done"} =>
    LET trace == Search.trace
    IN  /\ trace[1] = "get"
        /\ \A k \in 2..Len(trace) :
             /\ trace[k] = "get" => trace[k - 1] = "sleep"
             /\ trace[k] = "sleep" => trace[k - 1] = "get" /\ k < Len(trace)

C24_Witness ==
  /\ food.phase = "fetched"
  /\ Search.trace = <<"get", "sleep", "get">>


\* ------------------------------------------------------------------------ C25
\* The blocks of a type, in their order.
BlocksOf(marker, type) == SelectSeq(marker.blocks, LAMBDA b : b.type = type)
\* The image URLs the place resolved to in a category that carries images.
Resolved(place, main_type) ==
  IF main_type = ATTRACTION THEN place.s3_image_urls
  ELSE IF main_type = FOOD /\ place.s3_image_url /= NONE THEN <<place.s3_image_url>>
  ELSE <<>>

\* C25: the blocks of a marker are the header with the name, one image block
\* for each resolved image URL in their order, the paragraph of the summary,
\* and last the paragraph of the source exactly when the place has a website;
\* a marker of the events category has no image block and an empty
\* headerImage whatever s3_image_url and s3_image_urls the place carries.
C25_BlocksOfMarker ==
  call.phase = "formatted" =>
    \A k \in 1..Len(CallMarkers) :
      LET marker == CallMarkers[k]
          place == call.processed_places[k]
          urls == Resolved(place, call.main_type)
          n == Len(urls)
      IN  /\ marker.blocks[1] = [type |-> "header", text |-> <<"name", place.name>>]
          /\ Len(BlocksOf(marker, "header")) = 1
          /\ \A j \in 1..n :
               marker.blocks[1 + j] = [type |-> "image", text |-> <<"url", urls[j]>>]
          /\ Len(BlocksOf(marker, "image")) = n
          /\ marker.blocks[n + 2] = [type |-> "paragraph", text |-> <<"summary", place.summary>>]
          /\ IF place.website /= 0
               THEN /\ Len(marker.blocks) = n + 3
                    /\ marker.blocks[n + 3] =
                         [type |-> "paragraph", text |-> <<"source", place.website>>]
               ELSE Len(marker.blocks) = n + 2
          /\ call.main_type = EVENTS =>
               BlocksOf(marker, "image") = <<>> /\ marker.headerImage = 0

\* An attraction marker with two image blocks and a source.
C25_Witness ==
  /\ call.phase = "formatted"
  /\ call.main_type = ATTRACTION
  /\ Len(BlocksOf(CallMarkers[1], "image")) = 2
  /\ Len(CallMarkers[1].blocks) = 5


\* ------------------------------------------------------------------------ C26
\* The reviews the provider has of the place of the request; the text of a
\* review with text is its index.
Raw == food.env.reviews
WithText == {i \in 1..Len(Raw) : Raw[i].text /= 0}
\* Review i is ranked ahead of review j: more likes (none counting as 0), or
\* as many and a higher rating, or both equal and i is the earlier one.
RankedAhead(i, j) ==
  LET x == Raw[i]
      y == Raw[j]
      lx == IF x.likes = NONE THEN 0 ELSE x.likes
      ly == IF y.likes = NONE THEN 0 ELSE y.likes
  IN  \/ lx > ly
      \/ lx = ly /\ x.rating > y.rating
      \/ lx = ly /\ x.rating = y.rating /\ i < j
\* The single key "likes if the review has them, its rating otherwise".
LikesElseRating(i) == IF Raw[i].likes /= NONE THEN Raw[i].likes ELSE Raw[i].rating

ZeroCoordinate(body) ==
  /\ body.json_ok /\ body.main_type \in Categories
  /\ body.lat /= NONE /\ body.lng /= NONE
  /\ body.lat = 0 \/ body.lng = 0
ZeroRuns ==
  {r \in RunIds : runs[r].pc /= "idle" /\ (runs[r].lat = 0 \/ runs[r].lng = 0)}
\* The submission of such a body gets the missing-parameter response and
\* dispatches nothing.
ZeroSubmissionRejected ==
  \A body \in {b \in BoundaryBodies : ZeroCoordinate(b)} :
    (SubmitReject(body) \/ \E d \in {"202", "refused", "raised"} : SubmitInvoke(body, d))
    => /\ last'.by = "submit"
       /\ last'.response = MissingParamResponse
       /\ nextJob' = nextJob /\ inflight' = inflight /\ pending' = pending

\* C27 as stated: a submission with lat = 0 or lng = 0 is rejected with the
\* missing-parameter error and not dispatched, and a run of the executor on a
\* payload with lat = 0 or lng = 0 ends with the failed record of its job.
C27_ZeroEndsInFailedRecord ==
  /\ [](\A r \in ZeroRuns :
          runs[r].pc = "done" =>
            HasRecord(runs[r].job_id) /\ Record(runs[r].job_id).status = "failed")
  /\ [][ZeroSubmissionRejected]_vars

\* C27: a submission with lat = 0 or lng = 0 is rejected with the
\* missing-parameter error and not dispatched; a run of the executor on a
\* payload with lat = 0 or lng = 0 raises, never writes a completed record,
\* and ends with the failed record of its job unless its one write of that
\* record fails, when the job has no record.
C27_ZeroCoordinateIsMissing ==
  /\ [](\A r \in ZeroRuns :
          /\ runs[r].pc \in {"except", "done"}
          /\ runs[r].err /= ""
          /\ runs[r].wrote /= "completed"
          /\ runs[r].pc = "done" =>
               IF runs[r].wrote = "failed"
                 THEN /\ HasRecord(runs[r].job_id)
                      /\ Record(runs[r].job_id).status = "failed"
                 ELSE runs[r].error_puts = 1 /\ ~HasRecord(runs[r].job_id))
  /\ [][ZeroSubmissionRejected]_vars

\* A run on a payload with a coordinate of 0 that ended with the failed
\* record.
C27_Witness ==
  \E r \in ZeroRuns :
    /\ runs[r].pc = "done" /\ runs[r].wrote = "failed"
    /\ Record(runs[r].job_id).status = "failed"


\* ------------------------------------------------------------------------ C28
\* C28: in a food job the uploads of distinct candidates write distinct keys,
\* so the image under the key a candidate got is that candidate's photo,
\* whatever the names of the candidates and the seconds of the uploads.
C28_DistinctKeysOwnPhoto ==
  pool.phase = "uploading" =>
    LET done == DOMAIN pool.names \ pool.pending
    IN  /\ \A i, j \in done : i /= j => pool.s3_image_url[i] /= pool.s3_image_url[j]
        /\ \A i \in done : pool.objects[pool.s3_image_url[i]] = i


\* ------------------------------------------------------------------------ C29
\* The number of dispatches of a job: its payloads on their way to the
\* executor and its runs.
DispatchesOf(job_id) ==
  Cardinality({ev \in inflight : ev.job_id = job_id}) + Cardinality(RunsOf(job_id))
\* The responses of the starter: those it is about to return and the one it
\* returned last.
StarterResponses ==
  {p.response : p \in pending} \cup (IF last.by = "submit" THEN {last.response} ELSE {})

\* C29: a response of the starter carries a jobId only if it is the
\* acknowledgement (202) of a job whose dispatch was accepted, and that job
\* was dispatched exactly once; when the dispatch is refused or raises, the
\* response is a server error (500) with an error and no jobId, and the job
\* drawn for it was never dispatched.
C29_JobIdOnlyAfterDispatch ==
  /\ \A response \in StarterResponses :
       IF "jobId" \in DOMAIN response.body
         THEN /\ response.statusCode = 202
              /\ response.body.jobId \in 1..nextJob
              /\ DispatchesOf(response.body.jobId) = 1
         ELSE response.statusCode \in {400, 500} /\ response.body.error /= ""
  /\ \A p \in pending :
       p.response.statusCode /= 202 =>
         /\ p.response.statusCode = 500
         /\ "jobId" \notin DOMAIN p.response.body
         /\ DispatchesOf(p.job_id) = 0
  /\ \A job_id \in JobIds : DispatchesOf(job_id) <= 1

\* The starter returned the acknowledgement of a job that has its run.
C29_Witness ==
  /\ last.by = "submit"
  /\ last.response.statusCode = 202
  /\ DispatchesOf(last.response.body.jobId) = 1
  /\ RunsOf(last.response.body.jobId) /= {}


\* ------------------------------------------------------------------------ C30
\* The record of the job is gone though a run of the job wrote it.
Expired(job_id) ==
  /\ ~HasRecord(job_id)
  /\ \E r \in RunsOf(job_id) : runs[r].wrote \in {"completed", "failed"}

\* C30: a poll of a job whose record the storage expired answers processing,
\* the answer to a poll of a job id never submitted but for the jobId; this
\* also when the last poll reported the job completed or failed; and no poll
\* answers with another status than processing, completed or failed.
C30_ExpiredPollsAsProcessing ==
  /\ \A job_id \in JobIds :
       Expired(job_id) /\ Config.S3_BUCKET_NAME =>
         /\ CheckerResponse(Config, storage, job_id) = ProcessingResponse(job_id)
         /\ CheckerResponse(Config, storage, job_id) =
              [CheckerResponse(Config, storage, MaxJobs + 1) EXCEPT !.body.jobId = job_id]
         /\ PolledJob /\ last.job_id = job_id
              /\ last.response.body.status \in {"completed", "failed"} =>
                ENABLED (Poll(job_id) /\ last'.response = ProcessingResponse(job_id))
  /\ PolledJob /\ last.response.statusCode = 200 =>
       last.response.body.status \in {"processing", "completed", "failed"}

\* The last poll of the job reported it completed, and its record has expired since.
C30_Witness ==
  \E job_id \in JobIds :
    /\ Expired(job_id)
    /\ PolledJob /\ last.job_id = job_id
    /\ last.response.body.status = "completed"

====
